---- MODULE Spec2Model ----
(***************************************************************************)
(* Locomotion / collision / target-lock / attack core of the Zelda-like    *)
(* engine (src/js/core.js, src/js/main.js, src/js/enemy.js, the camera     *)
(* module src/unnamed/part_001 and src/js/environment.js).                 *)
(*                                                                         *)
(* Lengths are fixed-point integers in thousandths of a world unit, times  *)
(* are in milliseconds, velocities in thousandths of a unit per second.    *)
(* Unit vectors are scaled by 1000.                                        *)
(***************************************************************************)
EXTENDS Integers, Sequences, FiniteSets, TLC

----------------------------------------------------------------------------
(* Bounds of the exploration *)

\* number of display frames explored after construction
MaxFrames == 5
\* input events per run: attack() (mouse click), toggleTargetLock() (key F), resetPosition() (key R)
MaxInputs == 3
\* frames per run in which a direction key is held
MaxMoves == 1
\* mouse button, move and wheel events per run
MaxMouse == 4

----------------------------------------------------------------------------
(* Program constants *)

PlayerSpeed == 5
JumpHeight == 5000
PlayerRadius == 300
Gravity == 9800
GroundLevel == 1000
StepHeight == 100
CollisionCeiling == 3000
EnemySpeed == 2
EnemyAttackRange == 1500
MaxDetectionRange == 10000
AttackCooldown == 2000
EnemyStartHealth == 2
EnemyMinHeight == 800
PlayerStartHealth == 3
MaxHealth == 3
HeartRadius == 400
InteractMargin == 1000
TorsoHalfDepth == 150
BootSole == -100
HeadTop == 1775
LockRange == 15000
LockedAttackRange == 3000
DefaultAttackRange == 2000
SwordReach == 1500
SwordHitDistance == 1500
SwingDuration == 400
HitDelay == 200
DeathDelay == 100
FlashDelay == 200
FadeDelay == 1000
FadedOpacity == 300
ShakeSpeed == 5000
Pi == 3142
Sensitivity == 2
MinPolarAngle == 100
MaxPolarAngle == 1745
StartOrbitDistance == 5000
MinOrbitDistance == 2000
MaxOrbitDistance == 10000
WheelScale == 10
TreeRadius == 800
SignRadius == 500
HouseSizeX == 6000
HouseSizeZ == 5000
\* the frame period: the value clock.getDelta() returns in every frame
FrameMs == 500
\* the null reference
NoTarget == 0

EnemyIds == {1, 2}

----------------------------------------------------------------------------
(* Vector arithmetic of the scene-graph library, on fixed-point integers *)

Abs(a) == IF a < 0 THEN -a ELSE a

Max(a, b) == IF a > b THEN a ELSE b

Min(a, b) == IF a < b THEN a ELSE b

\* division rounded to the nearest integer, symmetric around zero
RoundDiv(a, b) == IF a >= 0 THEN (2 * a + b) \div (2 * b) ELSE -((2 * (-a) + b) \div (2 * b))

RECURSIVE SqrtIter(_, _, _)
SqrtIter(n, lo, hi) ==
    IF lo >= hi THEN lo
    ELSE LET mid == (lo + hi + 1) \div 2
         IN IF mid * mid <= n THEN SqrtIter(n, mid, hi) ELSE SqrtIter(n, lo, mid - 1)

\* floor of the square root
ISqrt(n) == SqrtIter(n, 0, 46340)

Vec(x, y, z) == [x |-> x, y |-> y, z |-> z]

Sub(a, b) == Vec(a.x - b.x, a.y - b.y, a.z - b.z)

\* Vector3.length
Length(v) ==
    IF Abs(v.x) > 25000 \/ Abs(v.y) > 25000 \/ Abs(v.z) > 25000
    THEN 4 * ISqrt((v.x \div 4) * (v.x \div 4) + (v.y \div 4) * (v.y \div 4) + (v.z \div 4) * (v.z \div 4))
    ELSE ISqrt(v.x * v.x + v.y * v.y + v.z * v.z)

\* Vector3.normalize: divides by the length, or by 1 when the length is 0
Normalize(v) ==
    LET len == Length(v)
    IN IF len = 0 THEN v
       ELSE Vec(RoundDiv(v.x * 1000, len), RoundDiv(v.y * 1000, len), RoundDiv(v.z * 1000, len))

\* a.distanceTo(b) < r, for r >= 0
DistanceLess(a, b, r) ==
    LET d == Sub(a, b)
    IN /\ Abs(d.x) < r /\ Abs(d.y) < r /\ Abs(d.z) < r
       /\ d.x * d.x + d.y * d.y + d.z * d.z < r * r

\* a.distanceTo(b) > r, for r >= 0
DistanceGreater(a, b, r) ==
    LET d == Sub(a, b)
    IN \/ Abs(d.x) > r \/ Abs(d.y) > r \/ Abs(d.z) > r
       \/ d.x * d.x + d.y * d.y + d.z * d.z > r * r

\* the squared distance of two points known to be closer than LockRange
DistanceSq(a, b) ==
    LET d == Sub(a, b)
    IN d.x * d.x + d.y * d.y + d.z * d.z

\* Object3D.lookAt towards position + dir, dir horizontal: the new forward vector;
\* a zero direction leaves the library's default forward axis
LookAlong(dir) ==
    LET n == Normalize(Vec(dir.x, 0, dir.z))
    IN IF n.x = 0 /\ n.z = 0 THEN Vec(0, 0, 1000) ELSE n

----------------------------------------------------------------------------
(* The collision world *)

Radial(type, x, z, radius) ==
    [type |-> type, x |-> x, z |-> z, radius |-> radius, sizeX |-> 0, sizeZ |-> 0]

\* Environment.createTree
Tree(x, z) == Radial("tree", x, z, TreeRadius)

\* Environment.createSign
Sign(x, z) == Radial("sign", x, z, SignRadius)

\* Environment.createRock: a rock collides only when size > 0.25, with radius size * 0.8
Rock(x, z, size) == Radial("rock", x, z, (size * 8) \div 10)

\* Environment.createHouse
House(x, z) ==
    [type |-> "house", x |-> x, z |-> z, radius |-> 0, sizeX |-> HouseSizeX, sizeZ |-> HouseSizeZ]

\* Environment.setup: the trees, the house and the sign, in creation order
Scenery ==
    << Tree(5000, 15000), Tree(-8000, 12000), Tree(12000, 20000), Tree(-15000, 18000),
       Tree(0, 25000), House(-20000, 15000), Sign(3000, 3000) >>

\* Environment.createEnvironmentalDetails scatters rocks at random; these are the
\* placements explored (each rock at least 5 units from the centre, size in (0.25, 0.5))
RockLayouts ==
    { << >>,
      << Rock(6800, 6800, 450) >>,
      << Rock(6800, 6800, 450), Rock(6800, 5000, 450) >>,
      << Rock(6800, 6800, 450), Rock(5000, 6800, 450) >>,
      << Rock(6800, 6800, 450), Rock(6800, 5000, 450), Rock(5000, 6800, 450) >> }

\* variant: the full collision radius, not 0.8 of it
RadialBlocks_fullRadius(c, position) ==
    LET dx == position.x - c.x
        dz == position.z - c.z
        reach == PlayerRadius + c.radius
    IN /\ Abs(dx) < reach
       /\ Abs(dz) < reach
       /\ dx * dx + dz * dz < reach * reach

\* the radial case of Core.checkCollision
RadialBlocks(c, position) ==
    LET dx == position.x - c.x
        dz == position.z - c.z
        adjustedRadius == (c.radius * 8) \div 10
        reach == PlayerRadius + adjustedRadius
    IN /\ Abs(dx) < reach
       /\ Abs(dz) < reach
       /\ dx * dx + dz * dz < reach * reach

\* variant: the bare box, not expanded by the player's radius
HouseBlocks_bareBox(c, position) ==
    LET minX == c.x - c.sizeX \div 2
        maxX == c.x + c.sizeX \div 2
        minZ == c.z - c.sizeZ \div 2
        maxZ == c.z + c.sizeZ \div 2
    IN /\ position.x > minX /\ position.x < maxX
       /\ position.z > minZ /\ position.z < maxZ

\* the box case of Core.checkCollision
HouseBlocks(c, position) ==
    LET minX == c.x - c.sizeX \div 2 - PlayerRadius
        maxX == c.x + c.sizeX \div 2 + PlayerRadius
        minZ == c.z - c.sizeZ \div 2 - PlayerRadius
        maxZ == c.z + c.sizeZ \div 2 + PlayerRadius
    IN /\ position.x > minX /\ position.x < maxX
       /\ position.z > minZ /\ position.z < maxZ

\* one iteration of the loop of Core.checkCollision: the switch on collidable.type
CollidableBlocks(c, position) ==
    CASE c.type \in {"tree", "sign", "rock"} -> RadialBlocks(c, position)
      [] c.type = "house" -> HouseBlocks(c, position)
      [] OTHER -> FALSE

\* variant: collisions stop right above the ground height
CheckCollisionIn_lowCeiling(list, position) ==
    IF position.y > GroundLevel THEN FALSE
    ELSE \E i \in 1..Len(list) : CollidableBlocks(list[i], position)

\* Core.checkCollision over a list of collidables
CheckCollisionIn(list, position) ==
    IF position.y > CollisionCeiling THEN FALSE
    ELSE \E i \in 1..Len(list) : CollidableBlocks(list[i], position)

----------------------------------------------------------------------------
(* State *)

VARIABLES
    collidables,     \* engine.collidables
    playerPos,       \* engine.player.position
    velocityY,       \* engine.player.velocity.y
    onGround,        \* engine.player.onGround
    facing,          \* the player's forward vector (0,0,1).applyQuaternion(quaternion)
    isAttacking,     \* engine.player.isAttacking
    playerHealth,    \* engine.playerHealth
    enemies,         \* engine.enemies: the live list, in order
    enemyPos,        \* enemy.position, per enemy object
    enemyHealth,     \* enemy.health
    inScene,         \* enemy.parent is the scene
    lastAttackTime,  \* enemy.lastAttackTime
    targetLocked,    \* engine.targetLocked
    currentTarget,   \* engine.currentTarget (NoTarget for null)
    timers,          \* pending setTimeout callbacks, in creation order
    swingFrames,     \* pending requestAnimationFrame(animateSwordSwing) callbacks: their startTime
    now,             \* milliseconds since construction
    frameDue,        \* position in the display frame: "none", "animate" or "swing"
    keys,            \* engine.keys as read by the last frame
    inputCalls,      \* number of attack(), toggleTargetLock() and resetPosition() calls so far
    lastCall,        \* the last input handler called and the branch it took
    lockCleared,     \* whether a death callback so far removed the lock target
    lastMove,        \* the movement resolution of the last frame with a direction held
    probe,           \* a direct call of Core.checkCollision: its argument and result
    moveFrames,      \* number of frames so far with a direction key held
    removals,        \* per enemy: how often the death callback removed it from the list
    lastHits,        \* the enemies damaged by the last hit-detection pass, in order
    enemyColor,      \* enemy.body.material.color: "base" or "red"
    lastPlayerPos,   \* engine.lastPlayerPos, the player position Camera.update remembers
    swings,          \* number of attack() calls so far that started a swing
    hitPasses,       \* number of hit-detection passes run so far
    material,        \* per scene mesh: material.opacity and material.transparent
    userData,        \* per scene mesh: userData.originalOpacity and userData.wasTransparent
    occludedAt,      \* per scene mesh: the time of the last frame in which it hid the player
    clockTime,       \* engine.clock: the time of the last getDelta()
    landingShake,    \* whether Camera.update has started a landing shake
    mouseControls,   \* engine.mouseControls: isActive, lastX, lastY, cameraRotation, orbitDistance
    mouseEvents,     \* number of mouse button, move and wheel events so far
    interactables    \* engine.interactables: the collectibles still in the list

vars ==
    << collidables, playerPos, velocityY, onGround, facing, isAttacking, playerHealth,
       enemies, enemyPos, enemyHealth, inScene, lastAttackTime, targetLocked, currentTarget,
       timers, swingFrames, now, frameDue, keys, inputCalls,
       lastCall, lockCleared, lastMove, probe, moveFrames, removals, lastHits,
       enemyColor, lastPlayerPos, swings, hitPasses, material, userData, occludedAt,
       clockTime, landingShake, mouseControls, mouseEvents, interactables >>

NoKeys ==
    [forward |-> FALSE, backward |-> FALSE, left |-> FALSE, right |-> FALSE, jump |-> FALSE]

Call(handler, branch) == [handler |-> handler, branch |-> branch]

\* no movement resolved yet
NoMove == [moved |-> FALSE, from |-> Vec(0, 0, 0), target |-> Vec(0, 0, 0), to |-> Vec(0, 0, 0)]

\* Core.checkCollision not called directly
NoProbe == [called |-> FALSE, position |-> Vec(0, 0, 0), blocked |-> FALSE, blockers |-> {}]

\* the collectible Environment.setup creates
Heart == "heart"

\* the scene meshes followed: a tree trunk and a blade of grass
Meshes == {"trunk", "blade"}

\* no mesh between the player and the camera
NoHit == "none"

\* the materials Environment.createTree and Environment.createGrassPatch give them
InitialMaterial ==
    [m \in Meshes |-> IF m = "trunk" THEN [opacity |-> 1000, transparent |-> FALSE]
                                     ELSE [opacity |-> 900, transparent |-> TRUE]]

\* userData of a mesh the camera has not faded: its fields are undefined, which the
\* tests of Camera.update read as false
NoUserData == [originalOpacity |-> 0, wasTransparent |-> FALSE]

NeverOccluded == -1

\* engine.mouseControls as the constructor leaves it: angles in thousandths of a radian,
\* the yaw set to PI after setupControls
InitialMouseControls ==
    [isActive |-> FALSE, lastX |-> 0, lastY |-> 0,
     cameraRotation |-> [x |-> 0, y |-> Pi], orbitDistance |-> StartOrbitDistance]

\* where Environment.setup creates the enemies
SpawnPositions ==
    (1 :> Vec(10000, EnemyMinHeight, 10000)) @@ (2 :> Vec(-10000, EnemyMinHeight, -10000))

\* the engine with the collidables list, the player at position with health, the
\* enemies at epos with health ehealth, the lock on target, nothing pending
Engine(list, position, health, epos, ehealth, target) ==
    /\ collidables = list
    /\ playerPos = position
    /\ velocityY = 0
    /\ onGround = TRUE
    /\ facing = Vec(0, 0, 1000)
    /\ isAttacking = FALSE
    /\ playerHealth = health
    /\ enemies = << 1, 2 >>
    /\ enemyPos = epos
    /\ enemyHealth = ehealth
    /\ inScene = [e \in EnemyIds |-> TRUE]
    /\ lastAttackTime = [e \in EnemyIds |-> 0]
    /\ targetLocked = (target # NoTarget)
    /\ currentTarget = target
    /\ timers = << >>
    /\ swingFrames = << >>
    /\ now = 0
    /\ frameDue = "none"
    /\ keys = NoKeys
    /\ inputCalls = 0
    /\ lastCall = Call("none", "none")
    /\ lockCleared = FALSE
    /\ lastMove = NoMove
    /\ moveFrames = 0
    /\ removals = [e \in EnemyIds |-> 0]
    /\ lastHits = << >>
    /\ enemyColor = [e \in EnemyIds |-> "base"]
    /\ lastPlayerPos = position
    /\ swings = 0
    /\ hitPasses = 0
    /\ material = InitialMaterial
    /\ userData = [m \in Meshes |-> NoUserData]
    /\ occludedAt = [m \in Meshes |-> NeverOccluded]
    /\ clockTime = 0
    /\ landingShake = FALSE
    /\ mouseControls = InitialMouseControls
    /\ mouseEvents = 0
    /\ interactables = {Heart}

StartPosition == Vec(5000, GroundLevel, 5000)

FullHealth == [e \in EnemyIds |-> EnemyStartHealth]

\* Core.constructor, Environment.setup, Player.create, Enemy.create
Init ==
    /\ Engine(Scenery, StartPosition, PlayerStartHealth, SpawnPositions, FullHealth, NoTarget)
    /\ probe = NoProbe

----------------------------------------------------------------------------
(* Target lock: Camera.toggleTargetLock *)

\* targetDirection of toggleTargetLock, Player.update and Player.attack: the normalized
\* vector to the target with its y zeroed, then lookAt(position + targetDirection)
FaceTarget(pos, targetPos) ==
    LET targetDirection == Normalize(Sub(targetPos, pos))
    IN LookAlong(Vec(targetDirection.x, 0, targetDirection.z))

\* the forEach of toggleTargetLock from index i on: closestEnemy, given the closest
\* so far (best, at squared distance bestSq; NoTarget stands for null at Infinity)
\* variant: an enemy at the same distance replaces the closest so far
RECURSIVE ClosestFrom_lastOnTies(_, _, _, _, _, _)
ClosestFrom_lastOnTies(list, pos, epos, i, best, bestSq) ==
    IF i > Len(list) THEN best
    ELSE LET enemy == list[i]
             inRange == DistanceLess(pos, epos[enemy], LockRange)
             closer == inRange /\ (best = NoTarget \/ DistanceSq(pos, epos[enemy]) <= bestSq)
         IN IF closer
            THEN ClosestFrom_lastOnTies(list, pos, epos, i + 1, enemy, DistanceSq(pos, epos[enemy]))
            ELSE ClosestFrom_lastOnTies(list, pos, epos, i + 1, best, bestSq)

RECURSIVE ClosestFrom(_, _, _, _, _, _)
ClosestFrom(list, pos, epos, i, best, bestSq) ==
    IF i > Len(list) THEN best
    ELSE LET enemy == list[i]
             inRange == DistanceLess(pos, epos[enemy], LockRange)
             closer == inRange /\ (best = NoTarget \/ DistanceSq(pos, epos[enemy]) < bestSq)
         IN IF closer
            THEN ClosestFrom(list, pos, epos, i + 1, enemy, DistanceSq(pos, epos[enemy]))
            ELSE ClosestFrom(list, pos, epos, i + 1, best, bestSq)

ClosestEnemy(list, pos, epos) == ClosestFrom(list, pos, epos, 1, NoTarget, 0)

\* variant: unlocking clears the flag and keeps the reference
ToggleResult_targetKept(list, locked, target, pos, face, epos) ==
    IF Len(list) = 0
    THEN [locked |-> locked, target |-> target, facing |-> face, branch |-> "no enemies"]
    ELSE IF ~locked
         THEN LET closestEnemy == ClosestEnemy(list, pos, epos)
              IN IF closestEnemy # NoTarget
                 THEN [locked |-> TRUE, target |-> closestEnemy,
                       facing |-> FaceTarget(pos, epos[closestEnemy]), branch |-> "lock"]
                 ELSE [locked |-> locked, target |-> target, facing |-> face,
                       branch |-> "none in range"]
         ELSE [locked |-> FALSE, target |-> target, facing |-> face, branch |-> "unlock"]

\* variant: the early return is taken for a list of one enemy too
ToggleResult_returnsOnOne(list, locked, target, pos, face, epos) ==
    IF Len(list) <= 1
    THEN [locked |-> locked, target |-> target, facing |-> face, branch |-> "no enemies"]
    ELSE IF ~locked
         THEN LET closestEnemy == ClosestEnemy(list, pos, epos)
              IN IF closestEnemy # NoTarget
                 THEN [locked |-> TRUE, target |-> closestEnemy,
                       facing |-> FaceTarget(pos, epos[closestEnemy]), branch |-> "lock"]
                 ELSE [locked |-> locked, target |-> target, facing |-> face,
                       branch |-> "none in range"]
         ELSE [locked |-> FALSE, target |-> NoTarget, facing |-> face, branch |-> "unlock"]

\* the lock state and facing toggleTargetLock leaves behind, and the branch it took
ToggleResult(list, locked, target, pos, face, epos) ==
    IF Len(list) = 0
    THEN [locked |-> locked, target |-> target, facing |-> face, branch |-> "no enemies"]
    ELSE IF ~locked
         THEN LET closestEnemy == ClosestEnemy(list, pos, epos)
              IN IF closestEnemy # NoTarget
                 THEN [locked |-> TRUE, target |-> closestEnemy,
                       facing |-> FaceTarget(pos, epos[closestEnemy]), branch |-> "lock"]
                 ELSE [locked |-> locked, target |-> target, facing |-> face,
                       branch |-> "none in range"]
         ELSE [locked |-> FALSE, target |-> NoTarget, facing |-> face, branch |-> "unlock"]

\* no handler runs between the callbacks of one display frame
BetweenHandlers == frameDue # "swing"

ToggleTargetLock ==
    /\ BetweenHandlers
    /\ inputCalls < MaxInputs
    /\ inputCalls' = inputCalls + 1
    /\ LET r == ToggleResult(enemies, targetLocked, currentTarget, playerPos, facing, enemyPos)
       IN /\ targetLocked' = r.locked
          /\ currentTarget' = r.target
          /\ facing' = r.facing
          /\ lastCall' = Call("toggleTargetLock", r.branch)
    /\ UNCHANGED << collidables, playerPos, velocityY, onGround, isAttacking,
                    playerHealth, enemies, enemyPos, enemyHealth, inScene,
                    lastAttackTime, timers, swingFrames, now, frameDue, keys,
                    lockCleared, lastMove, probe, moveFrames, removals, lastHits,
                    enemyColor, lastPlayerPos, swings, hitPasses, material, userData,
                    occludedAt, clockTime, landingShake, mouseControls, mouseEvents,
                    interactables >>

----------------------------------------------------------------------------
(* Attack: Player.attack and its delayed callbacks *)

Timer(kind, enemy, due) ==
    [kind |-> kind, enemy |-> enemy, due |-> due, color |-> "none", mesh |-> NoHit]

\* the callback that restores the colour an enemy had before it was flashed red
FlashTimer(enemy, due, originalColor) == [Timer("flash", enemy, due) EXCEPT !.color = originalColor]

\* variant: attack() without the test of the attacking flag
Attack_unguarded ==
    /\ BetweenHandlers
    /\ inputCalls < MaxInputs
    /\ inputCalls' = inputCalls + 1
    /\ isAttacking' = TRUE
    /\ swings' = swings + 1
    /\ lastCall' = Call("attack", "swing")
    /\ facing' = IF targetLocked /\ currentTarget # NoTarget
                 THEN FaceTarget(playerPos, enemyPos[currentTarget])
                 ELSE facing
    /\ timers' = Append(timers, Timer("hit", NoTarget, now + HitDelay))
    /\ swingFrames' = Append(swingFrames, now)
    /\ UNCHANGED << collidables, playerPos, velocityY, onGround, playerHealth, enemies,
                    enemyPos, enemyHealth, inScene, lastAttackTime, targetLocked,
                    currentTarget, now, frameDue, keys, lockCleared, lastMove, probe,
                    moveFrames, removals, lastHits, enemyColor, lastPlayerPos,
                    hitPasses, material, userData, occludedAt, clockTime, landingShake,
                    mouseControls, mouseEvents, interactables >>

\* Player.attack
Attack ==
    /\ BetweenHandlers
    /\ inputCalls < MaxInputs
    /\ inputCalls' = inputCalls + 1
    /\ IF isAttacking
       THEN /\ lastCall' = Call("attack", "return")
            /\ UNCHANGED << isAttacking, facing, timers, swingFrames, swings >>
       ELSE /\ isAttacking' = TRUE
            /\ swings' = swings + 1
            /\ lastCall' = Call("attack", "swing")
            /\ facing' = IF targetLocked /\ currentTarget # NoTarget
                         THEN FaceTarget(playerPos, enemyPos[currentTarget])
                         ELSE facing
            /\ timers' = Append(timers, Timer("hit", NoTarget, now + HitDelay))
            /\ swingFrames' = Append(swingFrames, now)
    /\ UNCHANGED << collidables, playerPos, velocityY, onGround, playerHealth, enemies,
                    enemyPos, enemyHealth, inScene, lastAttackTime, targetLocked,
                    currentTarget, now, frameDue, keys, lockCleared, lastMove, probe,
                    moveFrames, removals, lastHits, enemyColor, lastPlayerPos,
                    hitPasses, material, userData, occludedAt, clockTime, landingShake,
                    mouseControls, mouseEvents, interactables >>

\* forward.angleTo(toEnemy) < Math.PI / 4; angleTo is PI/2 for a zero vector
InAttackAngle(face, toEnemy) ==
    LET lenF == ISqrt(face.x * face.x + face.z * face.z)
        lenT == ISqrt(toEnemy.x * toEnemy.x + toEnemy.z * toEnemy.z)
        dot == face.x * toEnemy.x + face.z * toEnemy.z
    IN /\ lenF * lenT # 0
       /\ RoundDiv(dot * 1000, lenF * lenT) > 707

\* variant: the hit condition without the sword-tip test
IsHit_noSwordTip(pos, face, locked, target, enemy, epos) ==
    LET d == Normalize(Sub(epos, pos))
        toEnemy == Vec(d.x, 0, d.z)
        attackRange == IF locked /\ target = enemy THEN LockedAttackRange ELSE DefaultAttackRange
        inRange == DistanceLess(pos, epos, attackRange)
    IN \/ (locked /\ target = enemy /\ inRange)
       \/ (inRange /\ InAttackAngle(face, toEnemy))

\* the hit condition of the hit-detection pass for one enemy
IsHit(pos, face, locked, target, enemy, epos) ==
    LET d == Normalize(Sub(epos, pos))
        toEnemy == Vec(d.x, 0, d.z)
        attackRange == IF locked /\ target = enemy THEN LockedAttackRange ELSE DefaultAttackRange
        inRange == DistanceLess(pos, epos, attackRange)
        swordTip == Vec(pos.x + RoundDiv(face.x * SwordReach, 1000), pos.y,
                        pos.z + RoundDiv(face.z * SwordReach, 1000))
    IN \/ (locked /\ target = enemy /\ inRange)
       \/ (inRange /\ InAttackAngle(face, toEnemy))
       \/ DistanceLess(epos, swordTip, SwordHitDistance)

\* variant: the knockback direction keeps its y component
KnockedBack_vertical(pos, epos) ==
    LET knockbackDirection == Normalize(Sub(epos, pos))
    IN Vec(epos.x + knockbackDirection.x, Max(epos.y + knockbackDirection.y, EnemyMinHeight),
           epos.z + knockbackDirection.z)

\* the knockback of a hit: the enemy's new position
KnockedBack(pos, epos) ==
    LET d == Normalize(Sub(epos, pos))
        knockbackDirection == Vec(d.x, 0, d.z)
    IN Vec(epos.x + knockbackDirection.x, Max(epos.y, EnemyMinHeight), epos.z + knockbackDirection.z)

\* enemy.health after a hit
Damaged(health) == Max(0, health - 1)

\* the enemies of the list that the pass hits, in list order
HitList(list, pos, face, locked, target, epos) ==
    SelectSeq(list, LAMBDA e : IsHit(pos, face, locked, target, e, epos[e]))

\* the death-removal timers the pass schedules, in list order
DeathTimers(hits, health, due) ==
    LET dying == SelectSeq(hits, LAMBDA e : Damaged(health[e]) <= 0)
    IN [i \in 1..Len(dying) |-> Timer("death", dying[i], due)]

\* the timers the pass creates for the hits from index i on: for each enemy hit the
\* flash revert, then the death removal when the hit brought its health to 0
RECURSIVE HitTimers(_, _, _, _, _)
HitTimers(hits, i, health, color, time) ==
    IF i > Len(hits) THEN << >>
    ELSE << FlashTimer(hits[i], time + FlashDelay, color[hits[i]]) >>
            \o DeathTimers(<< hits[i] >>, health, time + DeathDelay)
            \o HitTimers(hits, i + 1, health, color, time)

InList(list, e) == \E i \in 1..Len(list) : list[i] = e

\* the index of the timer that fires next: the earliest due, the oldest among equals
NextTimer ==
    CHOOSE i \in 1..Len(timers) :
        \A j \in 1..Len(timers) :
            timers[i].due < timers[j].due \/ (timers[i].due = timers[j].due /\ i <= j)

RemoveAt(seq, i) == SubSeq(seq, 1, i - 1) \o SubSeq(seq, i + 1, Len(seq))

TimerDue == timers # << >> /\ timers[NextTimer].due <= now

\* the setTimeout callback of Player.attack at mid-swing
HitDetection ==
    /\ BetweenHandlers
    /\ TimerDue
    /\ timers[NextTimer].kind = "hit"
    /\ LET hits == HitList(enemies, playerPos, facing, targetLocked, currentTarget, enemyPos)
       IN /\ lastHits' = hits
          /\ enemyHealth' = [e \in EnemyIds |->
                                IF InList(hits, e) THEN Damaged(enemyHealth[e]) ELSE enemyHealth[e]]
          /\ enemyPos' = [e \in EnemyIds |->
                             IF InList(hits, e) THEN KnockedBack(playerPos, enemyPos[e]) ELSE enemyPos[e]]
          /\ enemyColor' = [e \in EnemyIds |-> IF InList(hits, e) THEN "red" ELSE enemyColor[e]]
          /\ timers' = RemoveAt(timers, NextTimer) \o HitTimers(hits, 1, enemyHealth, enemyColor, now)
    /\ hitPasses' = hitPasses + 1
    /\ UNCHANGED << collidables, playerPos, velocityY, onGround, facing, isAttacking,
                    playerHealth, enemies, inScene, lastAttackTime, targetLocked,
                    currentTarget, swingFrames, now, frameDue, keys, inputCalls,
                    lastCall, lockCleared, lastMove, probe, moveFrames, removals,
                    lastPlayerPos, swings, material, userData, occludedAt, clockTime,
                    landingShake, mouseControls, mouseEvents, interactables >>

\* variant: the colour is restored without the test that the enemy is still attached
Reverted_unchecked(attached, color, originalColor) == originalColor

\* the colour of the enemy after the flash revert callback
Reverted(attached, color, originalColor) == IF attached THEN originalColor ELSE color

\* the setTimeout callback that ends the red flash of an enemy that was hit
FlashRevert ==
    /\ BetweenHandlers
    /\ TimerDue
    /\ timers[NextTimer].kind = "flash"
    /\ LET enemy == timers[NextTimer].enemy
       IN enemyColor' = [enemyColor EXCEPT
                            ![enemy] = Reverted(inScene[enemy], @, timers[NextTimer].color)]
    /\ timers' = RemoveAt(timers, NextTimer)
    /\ UNCHANGED << collidables, playerPos, velocityY, onGround, facing, isAttacking,
                    playerHealth, enemies, enemyPos, enemyHealth, inScene,
                    lastAttackTime, targetLocked, currentTarget, swingFrames, now,
                    frameDue, keys, inputCalls, lastCall, lockCleared, lastMove, probe,
                    moveFrames, removals, lastHits, lastPlayerPos, swings, hitPasses,
                    material, userData, occludedAt, clockTime, landingShake,
                    mouseControls, mouseEvents, interactables >>

\* variant: splice without the index test, removing the last element
Spliced_last(list, e) == SubSeq(list, 1, Len(list) - 1)

\* engine.enemies after indexOf / splice
Spliced(list, e) == SelectSeq(list, LAMBDA x : x # e)

\* variant: the death callback forgets the lock
LockAfterRemoval_lockKept(locked, target, enemy) == [locked |-> locked, target |-> target]

\* variant: the death callback clears the lock whichever enemy it removed
LockAfterRemoval_anyEnemy(locked, target, enemy) == [locked |-> FALSE, target |-> NoTarget]

\* the lock state the death callback leaves behind for the removed enemy
LockAfterRemoval(locked, target, enemy) ==
    IF target = enemy THEN [locked |-> FALSE, target |-> NoTarget]
    ELSE [locked |-> locked, target |-> target]

\* the setTimeout callback that removes a defeated enemy
DeathRemoval ==
    /\ BetweenHandlers
    /\ TimerDue
    /\ timers[NextTimer].kind = "death"
    /\ LET enemy == timers[NextTimer].enemy
       IN /\ inScene' = [inScene EXCEPT ![enemy] = FALSE]
          /\ enemies' = Spliced(enemies, enemy)
          /\ removals' = [removals EXCEPT ![enemy] = IF InList(enemies, enemy) THEN @ + 1 ELSE @]
          /\ targetLocked' = LockAfterRemoval(targetLocked, currentTarget, enemy).locked
          /\ currentTarget' = LockAfterRemoval(targetLocked, currentTarget, enemy).target
          /\ lockCleared' = (lockCleared \/ currentTarget = enemy)
    /\ timers' = RemoveAt(timers, NextTimer)
    /\ UNCHANGED << collidables, playerPos, velocityY, onGround, facing, isAttacking,
                    playerHealth, enemyPos, enemyHealth, lastAttackTime, swingFrames,
                    now, frameDue, keys, inputCalls, lastCall, lastMove, probe,
                    moveFrames, lastHits, enemyColor, lastPlayerPos, swings, hitPasses,
                    material, userData, occludedAt, clockTime, landingShake,
                    mouseControls, mouseEvents, interactables >>

----------------------------------------------------------------------------
(* Locomotion: Player.update *)

Key(f, b, l, r, j) == [forward |-> f, backward |-> b, left |-> l, right |-> r, jump |-> j]

\* the key states explored for a frame
KeyInputs ==
    { NoKeys,
      Key(TRUE, FALSE, TRUE, FALSE, FALSE) }

\* forward and right of the free movement mode: (0,0,-1) and (1,0,0) turned by
\* mouseControls.cameraRotation.y, which Core.constructor sets to PI
FreeForward == Vec(0, 0, 1000)

FreeRight == Vec(-1000, 0, 0)

\* forward of the target locked mode: targetDirection
LockedForward(pos, targetPos) ==
    LET d == Normalize(Sub(targetPos, pos))
    IN Vec(d.x, 0, d.z)

\* right of the target locked mode: crossVectors((0,1,0), forward).normalize()
LockedRight(forward) == Normalize(Vec(forward.z, 0, -forward.x))

Scaled(v, k) == Vec(v.x * k, v.y * k, v.z * k)

Plus(a, b) == Vec(a.x + b.x, a.y + b.y, a.z + b.z)

B(flag) == IF flag THEN 1 ELSE 0

\* playerDirection after the four key tests
PlayerDirection(k, forward, right) ==
    Plus(Scaled(forward, B(k.forward) - B(k.backward)), Scaled(right, B(k.right) - B(k.left)))

\* playerDirection.normalize().multiplyScalar(speed * deltaTime)
Movement(direction, dt) ==
    LET n == Normalize(direction)
    IN Vec(RoundDiv(n.x * PlayerSpeed * dt, 1000), RoundDiv(n.y * PlayerSpeed * dt, 1000),
           RoundDiv(n.z * PlayerSpeed * dt, 1000))

\* variant: the slide along Z is tried before the slide along X
ResolveMovement_zFirst(list, pos, newPosition) ==
    LET slideX == Vec(newPosition.x, pos.y, pos.z)
        slideZ == Vec(pos.x, pos.y, newPosition.z)
        elevatedPosition == Vec(newPosition.x, newPosition.y + StepHeight, newPosition.z)
    IN IF ~CheckCollisionIn(list, newPosition) THEN newPosition
       ELSE IF ~CheckCollisionIn(list, slideZ) THEN slideZ
       ELSE IF ~CheckCollisionIn(list, slideX) THEN slideX
       ELSE IF ~CheckCollisionIn(list, elevatedPosition) THEN elevatedPosition
       ELSE pos

\* the movement resolution of Player.update: the position committed
ResolveMovement(list, pos, newPosition) ==
    LET slideX == Vec(newPosition.x, pos.y, pos.z)
        slideZ == Vec(pos.x, pos.y, newPosition.z)
        elevatedPosition == Vec(newPosition.x, newPosition.y + StepHeight, newPosition.z)
    IN IF ~CheckCollisionIn(list, newPosition) THEN newPosition
       ELSE IF ~CheckCollisionIn(list, slideX) THEN slideX
       ELSE IF ~CheckCollisionIn(list, slideZ) THEN slideZ
       ELSE IF ~CheckCollisionIn(list, elevatedPosition) THEN elevatedPosition
       ELSE pos

\* variant: the landing neither clamps the height nor grounds the player at once
JumpAndGravity_noClamp(p, jump, dt) ==
    LET jumped == jump /\ p.ground
        vy0 == IF jumped THEN JumpHeight ELSE p.vy
        ground0 == IF jumped THEN FALSE ELSE p.ground
        vy1 == vy0 - (Gravity * dt) \div 1000
        y1 == p.pos.y + (vy1 * dt) \div 1000
    IN IF ground0 THEN [pos |-> p.pos, vy |-> vy0, ground |-> TRUE]
       ELSE [pos |-> Vec(p.pos.x, y1, p.pos.z), vy |-> vy1, ground |-> y1 <= GroundLevel]

\* variant: no gravity, the player in flight keeps its vertical velocity
JumpAndGravity_noGravity(p, jump, dt) ==
    LET jumped == jump /\ p.ground
        vy0 == IF jumped THEN JumpHeight ELSE p.vy
        ground0 == IF jumped THEN FALSE ELSE p.ground
        y1 == p.pos.y + (vy0 * dt) \div 1000
    IN IF ground0 THEN [pos |-> p.pos, vy |-> vy0, ground |-> TRUE]
       ELSE IF y1 <= GroundLevel
            THEN [pos |-> Vec(p.pos.x, GroundLevel, p.pos.z), vy |-> 0, ground |-> TRUE]
            ELSE [pos |-> Vec(p.pos.x, y1, p.pos.z), vy |-> vy0, ground |-> FALSE]

\* variant: the landing keeps the vertical velocity
JumpAndGravity_keepVelocity(p, jump, dt) ==
    LET jumped == jump /\ p.ground
        vy0 == IF jumped THEN JumpHeight ELSE p.vy
        ground0 == IF jumped THEN FALSE ELSE p.ground
        vy1 == vy0 - (Gravity * dt) \div 1000
        y1 == p.pos.y + (vy1 * dt) \div 1000
    IN IF ground0 THEN [pos |-> p.pos, vy |-> vy0, ground |-> TRUE]
       ELSE IF y1 <= GroundLevel
            THEN [pos |-> Vec(p.pos.x, GroundLevel, p.pos.z), vy |-> vy1, ground |-> TRUE]
            ELSE [pos |-> Vec(p.pos.x, y1, p.pos.z), vy |-> vy1, ground |-> FALSE]

\* the jump and gravity part of Player.update, on [pos, vy, ground]
JumpAndGravity(p, jump, dt) ==
    LET jumped == jump /\ p.ground
        vy0 == IF jumped THEN JumpHeight ELSE p.vy
        ground0 == IF jumped THEN FALSE ELSE p.ground
        vy1 == vy0 - (Gravity * dt) \div 1000
        y1 == p.pos.y + (vy1 * dt) \div 1000
    IN IF ground0 THEN [pos |-> p.pos, vy |-> vy0, ground |-> TRUE]
       ELSE IF y1 <= GroundLevel
            THEN [pos |-> Vec(p.pos.x, GroundLevel, p.pos.z), vy |-> 0, ground |-> TRUE]
            ELSE [pos |-> Vec(p.pos.x, y1, p.pos.z), vy |-> vy1, ground |-> FALSE]

\* Player.update: the player's [pos, vy, ground, facing] after the locomotion step,
\* and what its movement resolution did
PlayerUpdate(list, pos, vy, ground, face, k, locked, target, epos, dt) ==
    LET lockedMode == locked /\ target # NoTarget
        forward == IF lockedMode THEN LockedForward(pos, epos[target]) ELSE FreeForward
        right == IF lockedMode THEN LockedRight(forward) ELSE FreeRight
        face0 == IF lockedMode THEN LookAlong(forward) ELSE face
        direction == PlayerDirection(k, forward, right)
        moving == Length(direction) > 0
        newPosition == Plus(pos, Movement(direction, dt))
        pos1 == IF moving THEN ResolveMovement(list, pos, newPosition) ELSE pos
        face1 == IF moving /\ ~locked THEN LookAlong(Normalize(direction)) ELSE face0
        g == JumpAndGravity([pos |-> pos1, vy |-> vy, ground |-> ground], k.jump, dt)
    IN [pos |-> g.pos, vy |-> g.vy, ground |-> g.ground, facing |-> face1,
        move |-> [moved |-> moving, from |-> pos, target |-> newPosition, to |-> pos1]]

----------------------------------------------------------------------------
(* Enemy AI: Enemy.update and Player.takeDamage *)

\* where the camera is when the player is hit: behind and above the player, at the
\* orbit distance, or trailing it
CameraOffsets == { Vec(0, 1500, -5000), Vec(-2000, 1500, -4000) }

\* Player.takeDamage on [pos, health]: source is the lock target's or the camera's position
TakeDamage(s, source) ==
    LET n == Normalize(Sub(s.pos, source))
        knockbackDirection == Vec(2 * n.x, 1000, 2 * n.z)
    IN [s EXCEPT !.health = Max(0, s.health - 1), !.pos = Plus(s.pos, knockbackDirection)]

\* the movement of an aggro enemy towards the player
Chase(epos, pos, dt) ==
    LET n == Normalize(Sub(pos, epos))
    IN Vec(epos.x + RoundDiv(n.x * EnemySpeed * dt, 1000), Max(epos.y, EnemyMinHeight),
           epos.z + RoundDiv(n.z * EnemySpeed * dt, 1000))

\* the body of the forEach of Enemy.update for one enemy,
\* on s = [pos, health, epos, last]: player position and health, enemy positions
\* and last attack times
EnemyStep(s, enemy, target, camera, time, dt) ==
    IF DistanceLess(s.epos[enemy], s.pos, MaxDetectionRange)
    THEN IF DistanceGreater(s.epos[enemy], s.pos, EnemyAttackRange)
         THEN [s EXCEPT !.epos[enemy] = Chase(s.epos[enemy], s.pos, dt)]
         ELSE IF time - s.last[enemy] > AttackCooldown
              THEN [TakeDamage(s, IF target # NoTarget THEN s.epos[target] ELSE camera)
                        EXCEPT !.last[enemy] = time]
              ELSE s
    ELSE s

RECURSIVE EnemyUpdate(_, _, _, _, _, _, _)
EnemyUpdate(s, list, i, target, camera, time, dt) ==
    IF i > Len(list) THEN s
    ELSE EnemyUpdate(EnemyStep(s, list[i], target, camera, time, dt), list, i + 1,
                     target, camera, time, dt)

----------------------------------------------------------------------------
(* The display frame: ZeldaLikeEngine.animate, then the sword swing callback *)

\* variant: Camera.update runs after Enemy.update
SeenByCamera_afterEnemies(afterLocomotion, afterEnemies) == afterEnemies

\* the player position Camera.update reads: the one Player.update left, Enemy.update
\* not yet run
SeenByCamera(afterLocomotion, afterEnemies) == afterLocomotion

\* a direction key is held
Directed(k) == k.forward \/ k.backward \/ k.left \/ k.right

\* hit.material.opacity || 1
OrOne(opacity) == IF opacity = 0 THEN 1000 ELSE opacity

\* the occlusion avoidance of Camera.update for the first mesh the ray from the player
\* to the camera meets: the mesh's material and userData, and whether a revert was set
Occlude(mat, data) ==
    IF ~data.wasTransparent
    THEN [material |-> [opacity |-> FadedOpacity, transparent |-> TRUE],
          userData |-> [originalOpacity |-> OrOne(mat.opacity), wasTransparent |-> mat.transparent],
          fades |-> TRUE]
    ELSE [material |-> mat, userData |-> data, fades |-> FALSE]

\* the callback that restores the material of a faded mesh
FadeTimer(mesh, due) == [Timer("fade", NoTarget, due) EXCEPT !.mesh = mesh]

\* the setTimeout callback of the occlusion avoidance
FadeRevert ==
    /\ BetweenHandlers
    /\ TimerDue
    /\ timers[NextTimer].kind = "fade"
    /\ LET hit == timers[NextTimer].mesh
       IN material' = [material EXCEPT ![hit] = [opacity |-> userData[hit].originalOpacity,
                                                 transparent |-> userData[hit].wasTransparent]]
    /\ timers' = RemoveAt(timers, NextTimer)
    /\ UNCHANGED << collidables, playerPos, velocityY, onGround, facing, isAttacking,
                    playerHealth, enemies, enemyPos, enemyHealth, inScene,
                    lastAttackTime, targetLocked, currentTarget, swingFrames, now,
                    frameDue, keys, inputCalls, lastCall, lockCleared, lastMove, probe,
                    moveFrames, removals, lastHits, enemyColor, lastPlayerPos, swings,
                    hitPasses, userData, occludedAt, clockTime, landingShake,
                    mouseControls, mouseEvents, interactables >>

\* the landing test of Camera.update, on the player's onGround and velocity.y
ShakeStarts(ground, vy) == ground /\ vy < -ShakeSpeed

\* ZeldaLikeEngine.animate with the keys k held, the camera at offset c and the mesh
\* hit between the player and the camera; deltaTime is clock.getDelta()
Animate(k, c, hit) ==
    /\ frameDue = "animate"
    /\ Directed(k) => moveFrames < MaxMoves
    /\ moveFrames' = moveFrames + B(Directed(k))
    /\ keys' = k
    /\ clockTime' = now
    /\ \E deltaTime \in {now - clockTime} :
       \E p \in {PlayerUpdate(collidables, playerPos, velocityY, onGround, facing, k,
                              targetLocked, currentTarget, enemyPos, deltaTime)} :
       \E s \in {EnemyUpdate([pos |-> p.pos, health |-> playerHealth, epos |-> enemyPos,
                              last |-> lastAttackTime],
                             enemies, 1, currentTarget, Plus(p.pos, c), now, deltaTime)} :
          /\ playerPos' = s.pos
          /\ landingShake' = (landingShake \/ ShakeStarts(p.ground, p.vy))
          /\ velocityY' = p.vy
          /\ onGround' = p.ground
          /\ facing' = p.facing
          /\ lastMove' = IF p.move.moved THEN p.move ELSE lastMove
          /\ lastPlayerPos' = IF targetLocked /\ currentTarget # NoTarget THEN lastPlayerPos
                              ELSE SeenByCamera(p.pos, s.pos)
          /\ playerHealth' = s.health
          /\ enemyPos' = s.epos
          /\ lastAttackTime' = s.last
    /\ IF hit # NoHit
       THEN LET o == Occlude(material[hit], userData[hit])
            IN /\ material' = [material EXCEPT ![hit] = o.material]
               /\ userData' = [userData EXCEPT ![hit] = o.userData]
               /\ timers' = IF o.fades THEN Append(timers, FadeTimer(hit, now + FadeDelay))
                             ELSE timers
               /\ occludedAt' = [occludedAt EXCEPT ![hit] = now]
       ELSE UNCHANGED << material, userData, timers, occludedAt >>
    /\ frameDue' = IF swingFrames # << >> THEN "swing" ELSE "none"
    /\ UNCHANGED << collidables, isAttacking, enemies, enemyHealth, inScene,
                    targetLocked, currentTarget, swingFrames, now, inputCalls, lastCall,
                    lockCleared, probe, removals, lastHits, enemyColor, swings,
                    hitPasses, mouseControls, mouseEvents, interactables >>

\* variant: the swing ends at the first frame, whatever time has elapsed
RECURSIVE SwingCallbacks_endsAtOnce(_, _, _, _)
SwingCallbacks_endsAtOnce(r, frames, i, time) ==
    IF i > Len(frames) THEN r
    ELSE LET step == IF ~r.attacking THEN r ELSE [r EXCEPT !.attacking = FALSE]
         IN SwingCallbacks_endsAtOnce(step, frames, i + 1, time)

\* variant: an unfinished swing does not request its next frame
RECURSIVE SwingCallbacks_notRequested(_, _, _, _)
SwingCallbacks_notRequested(r, frames, i, time) ==
    IF i > Len(frames) THEN r
    ELSE LET elapsed == time - frames[i]
             step == IF ~r.attacking THEN r
                     ELSE IF elapsed < SwingDuration
                          THEN r
                          ELSE [r EXCEPT !.attacking = FALSE]
         IN SwingCallbacks_notRequested(step, frames, i + 1, time)

\* the requestAnimationFrame callbacks animateSwordSwing of this frame, in order:
\* [attacking, pending] after running the callbacks from index i on
RECURSIVE SwingCallbacks(_, _, _, _)
SwingCallbacks(r, frames, i, time) ==
    IF i > Len(frames) THEN r
    ELSE LET elapsed == time - frames[i]
             step == IF ~r.attacking THEN r
                     ELSE IF elapsed < SwingDuration
                          THEN [r EXCEPT !.pending = Append(@, frames[i])]
                          ELSE [r EXCEPT !.attacking = FALSE]
         IN SwingCallbacks(step, frames, i + 1, time)

AnimateSwordSwing ==
    /\ frameDue = "swing"
    /\ LET r == SwingCallbacks([attacking |-> isAttacking, pending |-> << >>], swingFrames, 1, now)
       IN /\ isAttacking' = r.attacking
          /\ swingFrames' = r.pending
    /\ frameDue' = "none"
    /\ UNCHANGED << collidables, playerPos, velocityY, onGround, facing, playerHealth,
                    enemies, enemyPos, enemyHealth, inScene, lastAttackTime,
                    targetLocked, currentTarget, timers, now, keys, inputCalls,
                    lastCall, lockCleared, lastMove, probe, moveFrames, removals,
                    lastHits, enemyColor, lastPlayerPos, swings, hitPasses, material,
                    userData, occludedAt, clockTime, landingShake, mouseControls,
                    mouseEvents, interactables >>

NextFrameTime == (now \div FrameMs + 1) * FrameMs

\* time passes until the next timer is due or the next frame is displayed
Advance ==
    /\ frameDue = "none"
    /\ ~TimerDue
    /\ LET t == IF timers # << >> THEN Min(timers[NextTimer].due, NextFrameTime) ELSE NextFrameTime
       IN /\ t <= MaxFrames * FrameMs
          /\ now' = t
          /\ frameDue' = IF t = NextFrameTime THEN "animate" ELSE "none"
    /\ UNCHANGED << collidables, playerPos, velocityY, onGround, facing, isAttacking,
                    playerHealth, enemies, enemyPos, enemyHealth, inScene,
                    lastAttackTime, targetLocked, currentTarget, timers, swingFrames,
                    keys, inputCalls, lastCall, lockCleared, lastMove, probe,
                    moveFrames, removals, lastHits, enemyColor, lastPlayerPos, swings,
                    hitPasses, material, userData, occludedAt, clockTime, landingShake,
                    mouseControls, mouseEvents, interactables >>

----------------------------------------------------------------------------
(* Player.resetPosition *)

TestPositions ==
    << Vec(0, 500, 0), Vec(5000, 500, 5000), Vec(-5000, 500, -5000), Vec(10000, 500, 0),
       Vec(0, 500, 10000) >>

ElevatedPosition == Vec(0, 5000, 0)

\* variant: the last clear test position, not the first
ResetResult_lastClear(list, ground) ==
    LET clear == { i \in 1..Len(TestPositions) : ~CheckCollisionIn(list, TestPositions[i]) }
    IN IF clear # {}
       THEN [pos |-> TestPositions[CHOOSE i \in clear : \A j \in clear : i >= j], ground |-> TRUE,
             branch |-> "test position"]
       ELSE [pos |-> ElevatedPosition, ground |-> ground, branch |-> "elevated"]

\* the player's [pos, ground] after resetPosition, and the branch taken
ResetResult(list, ground) ==
    LET clear == { i \in 1..Len(TestPositions) : ~CheckCollisionIn(list, TestPositions[i]) }
    IN IF clear # {}
       THEN [pos |-> TestPositions[CHOOSE i \in clear : \A j \in clear : i <= j], ground |-> TRUE,
             branch |-> "test position"]
       ELSE [pos |-> ElevatedPosition, ground |-> ground, branch |-> "elevated"]

ResetPosition ==
    /\ BetweenHandlers
    /\ inputCalls < MaxInputs
    /\ inputCalls' = inputCalls + 1
    /\ LET r == ResetResult(collidables, onGround)
       IN /\ playerPos' = r.pos
          /\ onGround' = r.ground
          /\ lastCall' = Call("resetPosition", r.branch)
    /\ velocityY' = 0
    /\ UNCHANGED << collidables, facing, isAttacking, playerHealth, enemies, enemyPos,
                    enemyHealth, inScene, lastAttackTime, targetLocked, currentTarget,
                    timers, swingFrames, now, frameDue, keys, lockCleared, lastMove,
                    probe, moveFrames, removals, lastHits, enemyColor, lastPlayerPos,
                    swings, hitPasses, material, userData, occludedAt, clockTime,
                    landingShake, mouseControls, mouseEvents, interactables >>

----------------------------------------------------------------------------
(* The engine *)

Frame == \E k \in KeyInputs, c \in CameraOffsets : Animate(k, c, NoHit)

Next ==
    \/ Advance
    \/ Frame
    \/ AnimateSwordSwing
    \/ Attack
    \/ HitDetection
    \/ DeathRemoval
    \/ FlashRevert
    \/ ToggleTargetLock
    \/ ResetPosition

Spec == Init /\ [][Next]_vars

----------------------------------------------------------------------------
(* Core.checkCollision on its own: the engine as constructed, one call per run *)

\* a rock next to the sign, and the lists explored
Worlds == { Scenery, Scenery \o << Rock(6800, 6800, 450) >> }

\* coordinates at, just inside and just outside a distance d from a centre
EdgeOffsets(d) == { -d - 1, -d, -d + 1, 0, d - 1, d, d + 1 }

\* heights below, at and above the height where collisions stop
ProbeHeights == { GroundLevel, CollisionCeiling, CollisionCeiling + 1 }

\* positions around the first tree, the sign, the rock and the house, on and next to
\* the edge of what blocks the player
ProbePlaces ==
    { << 5000 + dx, 15000 + dz >> : dx \in EdgeOffsets(940), dz \in EdgeOffsets(940) }
    \cup { << 5000 + d[1], 15000 + d[2] >> : d \in { << 664, 665 >>, << 665, 665 >>, << -665, 664 >> } }
    \cup { << 3000 + dx, 3000 + dz >> : dx \in EdgeOffsets(700), dz \in EdgeOffsets(700) }
    \cup { << 6800 + dx, 6800 + dz >> : dx \in EdgeOffsets(588), dz \in EdgeOffsets(588) }
    \cup { << -20000 + dx, 15000 + dz >> : dx \in EdgeOffsets(3300), dz \in EdgeOffsets(2800) }

ProbePositions == { Vec(p[1], y, p[2]) : p \in ProbePlaces, y \in ProbeHeights }

InitCollision ==
    /\ \E list \in Worlds :
           Engine(list, StartPosition, PlayerStartHealth, SpawnPositions, FullHealth, NoTarget)
    /\ probe \in { [NoProbe EXCEPT !.position = p] : p \in ProbePositions }

\* engine.checkCollision(probe.position)
CheckCollisionCall ==
    /\ ~probe.called
    /\ probe' = [called |-> TRUE,
                 position |-> probe.position,
                 blocked |-> CheckCollisionIn(collidables, probe.position),
                 blockers |-> { i \in 1..Len(collidables) :
                                  CollidableBlocks(collidables[i], probe.position) }]
    /\ UNCHANGED << collidables, playerPos, velocityY, onGround, facing, isAttacking,
                    playerHealth, enemies, enemyPos, enemyHealth, inScene,
                    lastAttackTime, targetLocked, currentTarget, timers, swingFrames,
                    now, frameDue, keys, inputCalls, lastCall, lockCleared, lastMove,
                    moveFrames, removals, lastHits, enemyColor, lastPlayerPos, swings,
                    hitPasses, material, userData, occludedAt, clockTime, landingShake,
                    mouseControls, mouseEvents, interactables >>

NextCollision == CheckCollisionCall

SpecCollision == InitCollision /\ [][NextCollision]_vars

----------------------------------------------------------------------------
(* Locomotion among rocks: frames only, every combination of movement keys *)

Booleans == { TRUE, FALSE }

MoveKeys == { Key(f, b, l, r, FALSE) : f \in Booleans, b \in Booleans, l \in Booleans, r \in Booleans }

\* the player where Player.create puts it, and where two hits of Player.takeDamage
\* lift it to
MoveStarts ==
    { [position |-> StartPosition, health |-> PlayerStartHealth],
      [position |-> Vec(5000, GroundLevel + 2000, 5000), health |-> PlayerStartHealth - 2] }

InitMove ==
    /\ \E rocks \in RockLayouts, start \in MoveStarts :
           Engine(Scenery \o rocks, start.position, start.health, SpawnPositions, FullHealth,
                  NoTarget)
    /\ probe = NoProbe

FrameMove == \E k \in MoveKeys, c \in CameraOffsets : Animate(k, c, NoHit)

NextMove == Advance \/ FrameMove

SpecMove == InitMove /\ [][NextMove]_vars

----------------------------------------------------------------------------
(* Movement properties *)

\* the candidate positions of a movement from pos to newPosition: the full movement,
\* the slide along X, the slide along Z, the full movement raised by the step height
Candidates(pos, newPosition) ==
    << newPosition,
       Vec(newPosition.x, pos.y, pos.z),
       Vec(pos.x, pos.y, newPosition.z),
       Vec(newPosition.x, newPosition.y + StepHeight, newPosition.z) >>

\* C3: when the input direction is not zero, the position the locomotion step commits
\* is the first candidate free of collision in the order full movement, slide along X,
\* slide along Z, full movement raised by 0.1; when all four are blocked the position
\* does not change.
MoveCommitsFirstClear ==
    lastMove.moved =>
        LET c == Candidates(lastMove.from, lastMove.target)
            clear == { i \in 1..4 : ~CheckCollisionIn(collidables, c[i]) }
        IN lastMove.to = IF clear = {} THEN lastMove.from
                         ELSE c[CHOOSE i \in clear : \A j \in clear : i <= j]

\* a movement blocked in full and along X that committed the slide along Z
SlidAlongZ ==
    /\ lastMove.moved
    /\ CheckCollisionIn(collidables, lastMove.target)
    /\ CheckCollisionIn(collidables, Vec(lastMove.target.x, lastMove.from.y, lastMove.from.z))
    /\ lastMove.to = Vec(lastMove.from.x, lastMove.from.y, lastMove.target.z)
    /\ lastMove.to # lastMove.from

----------------------------------------------------------------------------
(* Collision properties *)

RadialIndexes == { i \in 1..Len(collidables) : collidables[i].type \in {"tree", "sign", "rock"} }

BoxIndexes == { i \in 1..Len(collidables) : collidables[i].type = "house" }

\* the planar distance from p to the radial collidable c is less than
\* PlayerRadius + 0.8 * c.radius
InEnvelope(c, p) ==
    LET dx == p.x - c.x
        dz == p.z - c.z
        envelope == PlayerRadius + (8 * c.radius) \div 10
    IN dx * dx + dz * dz < envelope * envelope

\* p.x and p.z are strictly inside the extents of the box c, each widened by PlayerRadius
InExpandedBox(c, p) ==
    /\ Abs(p.x - c.x) < c.sizeX \div 2 + PlayerRadius
    /\ Abs(p.z - c.z) < c.sizeZ \div 2 + PlayerRadius

\* C4: for every position p, checkCollision(p) is true if p.y <= 3.0 and p is closer
\* in the X/Z plane than PlayerRadius + 0.8 * radius to some tree, sign or rock; it is
\* false if p is at or outside that envelope of every one of them and outside every
\* box; and it is false for every p with p.y > 3.0.
RadialEnvelopeBlocks ==
    probe.called =>
        LET p == probe.position
        IN /\ (p.y <= CollisionCeiling /\ \E i \in RadialIndexes : InEnvelope(collidables[i], p))
                  => probe.blocked
           /\ ((\A i \in RadialIndexes : ~InEnvelope(collidables[i], p))
                  /\ (\A i \in BoxIndexes : ~InExpandedBox(collidables[i], p)))
                  => ~probe.blocked
           /\ p.y > CollisionCeiling => ~probe.blocked

\* a call at the highest colliding height, a thousandth of a unit inside the first tree's envelope
BlockedInsideTreeEnvelope ==
    /\ probe.called
    /\ probe.position = Vec(5000 + 939, CollisionCeiling, 15000)
    /\ probe.blocked

\* C5: for every position p with p.y <= 3.0 and every box (house), checkCollision(p) is
\* true when p.x and p.z are both strictly inside the box's extents widened by the
\* player's radius; a position on or outside the widened boundary on either axis is
\* not blocked by that box.
ExpandedBoxBlocks ==
    probe.called =>
        LET p == probe.position
        IN \A i \in BoxIndexes :
              /\ (p.y <= CollisionCeiling /\ InExpandedBox(collidables[i], p)) => probe.blocked
              /\ ~InExpandedBox(collidables[i], p) => i \notin probe.blockers

\* a call a thousandth of a unit inside the corner of the house's widened box
BlockedInsideHouseCorner ==
    /\ probe.called
    /\ probe.position = Vec(-20000 - 3299, GroundLevel, 15000 - 2799)
    /\ probe.blocked

----------------------------------------------------------------------------
(* Target lock properties *)

\* the step is the death callback removing the enemy that is the lock target
RemovesLockTarget ==
    /\ TimerDue
    /\ timers[NextTimer].kind = "death"
    /\ timers[NextTimer].enemy = currentTarget
    /\ timers' = RemoveAt(timers, NextTimer)
    /\ ~InList(enemies', currentTarget)

\* C1: the lock target is never a dangling reference. Whenever currentTarget is not null
\* it is an element of the enemies list, and in the state right after the death callback
\* removes the enemy that was the lock target, targetLocked is false and currentTarget
\* is null.
LockTargetNeverDangling ==
    /\ [](currentTarget # NoTarget => InList(enemies, currentTarget))
    /\ [][RemovesLockTarget => (~targetLocked' /\ currentTarget' = NoTarget)]_vars

\* the death callback has removed the enemy the lock was on
LockTargetRemoved ==
    /\ lockCleared
    /\ \E e \in EnemyIds : removals[e] = 1 /\ ~InList(enemies, e)

\* C2: targetLocked is true exactly when currentTarget is not null, after every
\* toggleTargetLock call and after every death removal.
LockedIffTarget == targetLocked <=> (currentTarget # NoTarget)

\* toggleTargetLock has taken its unlock branch and nothing has locked since
Unlocked ==
    /\ lastCall = Call("toggleTargetLock", "unlock")
    /\ ~targetLocked
    /\ currentTarget = NoTarget

----------------------------------------------------------------------------
(* Melee: the enemies have closed in on the player, who attacks *)

\* the player where Player.create puts it, and where resetPosition puts it
MeleePlayer == { StartPosition, Vec(0, 500, 0) }

\* where the two enemies stand relative to the player: ahead and ahead to the side,
\* ahead and as far behind, ahead and out of every range
MeleeLayouts ==
    { << Vec(0, 0, 1200), Vec(900, 0, 900) >>,
      << Vec(0, 0, 1200), Vec(0, 0, -1200) >>,
      << Vec(0, 0, 1200), Vec(-15000, 0, -15000) >> }

\* the health the enemies are left with
MeleeHealth == { << 2, 2 >>, << 1, 2 >>, << 1, 1 >> }

InitMelee ==
    /\ \E position \in MeleePlayer, o \in MeleeLayouts, h \in MeleeHealth, target \in {NoTarget, 1} :
           Engine(Scenery, position, PlayerStartHealth,
                  (1 :> Vec(position.x + o[1].x, EnemyMinHeight, position.z + o[1].z))
                     @@ (2 :> Vec(position.x + o[2].x, EnemyMinHeight, position.z + o[2].z)),
                  (1 :> h[1]) @@ (2 :> h[2]), target)
    /\ probe = NoProbe

FrameIdle == \E c \in CameraOffsets : Animate(NoKeys, c, NoHit)

NextMelee ==
    \/ Advance
    \/ FrameIdle
    \/ AnimateSwordSwing
    \/ Attack
    \/ HitDetection
    \/ DeathRemoval
    \/ FlashRevert
    \/ ToggleTargetLock

SpecMelee == InitMelee /\ [][NextMelee]_vars

----------------------------------------------------------------------------
(* Attack properties *)

\* the step is a call of the input handler named
Calls(handler) == inputCalls' = inputCalls + 1 /\ lastCall'.handler = handler

\* the step is the hit-detection callback of an attack
HitCheckRuns ==
    /\ TimerDue
    /\ timers[NextTimer].kind = "hit"
    /\ now' = now /\ inputCalls' = inputCalls /\ frameDue' = frameDue

PendingHitChecks == { i \in 1..Len(timers) : timers[i].kind = "hit" }

\* C6: attack() called while the attacking flag is true does nothing: it schedules no
\* hit-detection callback, starts no swing animation, and leaves every enemy's health
\* and position and the player's facing unchanged; so at most one hit-detection pass
\* is pending at any time.
AttackGuard ==
    /\ [][(Calls("attack") /\ isAttacking)
             => UNCHANGED << timers, swingFrames, isAttacking, enemyHealth, enemyPos, facing,
                             enemies, playerPos >>]_vars
    /\ [](Cardinality(PendingHitChecks) <= 1)

\* attack() was called during a swing, the hit-detection pass of that swing still pending
AttackIgnoredMidSwing ==
    /\ lastCall = Call("attack", "return")
    /\ isAttacking
    /\ Cardinality(PendingHitChecks) = 1

\* C7: every enemy that satisfies the hit condition when the hit check runs loses
\* exactly 1 health (not below 0), is moved in X/Z away from the player by a vector
\* that is not zero whenever it is horizontally offset from the player, and keeps its Y
\* except for being raised to the minimum 0.8.
HitEffect ==
    [][HitCheckRuns =>
         \A e \in EnemyIds :
            (InList(enemies, e)
               /\ IsHit(playerPos, facing, targetLocked, currentTarget, e, enemyPos[e]))
            => LET offX == enemyPos[e].x - playerPos.x
                   offZ == enemyPos[e].z - playerPos.z
                   movedX == enemyPos'[e].x - enemyPos[e].x
                   movedZ == enemyPos'[e].z - enemyPos[e].z
               IN /\ enemyHealth'[e] = Max(0, enemyHealth[e] - 1)
                  /\ (offX # 0 \/ offZ # 0)
                        => ((movedX # 0 \/ movedZ # 0) /\ movedX * offX + movedZ * offZ > 0)
                  /\ enemyPos'[e].y = Max(enemyPos[e].y, EnemyMinHeight)]_vars

\* a hit check has damaged an enemy that is still alive
EnemyWounded ==
    \E e \in EnemyIds : InList(lastHits, e) /\ enemyHealth[e] = EnemyStartHealth - 1

PendingDeaths(e) == { i \in 1..Len(timers) : timers[i].kind = "death" /\ timers[i].enemy = e }

\* C8: one hit check damages each enemy at most once, and an enemy whose health
\* reaches 0 has its death path run exactly once: it is detached from the scene and
\* removed from the enemies list once, never a second time, and no other enemy is
\* removed in its place.
DamagedOnceRemovedOnce ==
    /\ [][HitCheckRuns =>
             /\ \A e \in EnemyIds : enemyHealth'[e] >= enemyHealth[e] - 1
             /\ \A i, j \in 1..Len(lastHits') : lastHits'[i] = lastHits'[j] => i = j]_vars
    /\ [](\A e \in EnemyIds :
             /\ removals[e] <= 1
             /\ Cardinality(PendingDeaths(e)) <= 1
             /\ enemyHealth[e] = 0
                   <=> (Cardinality(PendingDeaths(e)) = 1 \/ removals[e] = 1)
             /\ removals[e] = 1
                   <=> (~InList(enemies, e) /\ ~inScene[e] /\ PendingDeaths(e) = {})
             /\ InList(enemies, e) <=> inScene[e])

\* one hit check damaged both enemies; the one it brought to 0 health has been
\* removed, the other is still in the list
OneOfTwoHitRemoved ==
    \E e, f \in EnemyIds :
        /\ e # f
        /\ InList(lastHits, e) /\ InList(lastHits, f)
        /\ enemyHealth[e] = 0 /\ removals[e] = 1 /\ ~InList(enemies, e) /\ ~inScene[e]
        /\ enemyHealth[f] > 0 /\ removals[f] = 0 /\ InList(enemies, f) /\ inScene[f]

----------------------------------------------------------------------------
(* Jump and gravity properties *)

\* the step is a frame: ZeldaLikeEngine.animate
FrameRuns == frameDue = "animate" /\ frameDue' # "animate"

\* C9: a frame that starts with the player grounded and finds the jump key not held
\* leaves the player's Y and vertical velocity unchanged.
GroundedStaysLevel ==
    [][(FrameRuns /\ onGround /\ ~keys'.jump)
         => (playerPos'.y = playerPos.y /\ velocityY' = velocityY)]_vars

----------------------------------------------------------------------------
(* Lock acquisition properties *)

\* the enemies of the list closer to the player than the lock range
WithinLockRange == { i \in 1..Len(enemies) : DistanceLess(playerPos, enemyPos[enemies[i]], LockRange) }

\* C10: toggleTargetLock() called while unlocked locks onto the enemy of the list at
\* the least distance from the player among those strictly closer than 15 units, the
\* first in list order among equals, and sets targetLocked; when no enemy of the list
\* is closer than 15 units, or the list is empty, targetLocked stays false and no
\* target is assigned.
LockAcquiresNearest ==
    [][(Calls("toggleTargetLock") /\ ~targetLocked) =>
         IF WithinLockRange = {}
         THEN ~targetLocked' /\ currentTarget' = currentTarget
         ELSE /\ targetLocked'
              /\ \E i \in WithinLockRange :
                    /\ currentTarget' = enemies[i]
                    /\ \A j \in WithinLockRange :
                          LET di == DistanceSq(playerPos, enemyPos[enemies[i]])
                              dj == DistanceSq(playerPos, enemyPos[enemies[j]])
                          IN di < dj \/ (di = dj /\ i <= j)]_vars

\* a lock taken with both enemies at the same distance, within range: on the first
LockedFirstOfEqual ==
    /\ lastCall = Call("toggleTargetLock", "lock")
    /\ enemies = << 1, 2 >>
    /\ DistanceLess(playerPos, enemyPos[1], LockRange)
    /\ DistanceSq(playerPos, enemyPos[1]) = DistanceSq(playerPos, enemyPos[2])
    /\ targetLocked
    /\ currentTarget = 1

----------------------------------------------------------------------------
(* Unlocking *)

\* C11: toggleTargetLock() called while targetLocked is true clears the lock whatever
\* the number of enemies in the list, the target's distance or its health: afterwards
\* targetLocked is false and currentTarget is null.
ToggleClearsLock ==
    [][(Calls("toggleTargetLock") /\ targetLocked)
         => (~targetLocked' /\ currentTarget' = NoTarget)]_vars

\* the lock was released with a single enemy left in the list
UnlockedWithOneEnemyLeft ==
    /\ lastCall = Call("toggleTargetLock", "unlock")
    /\ Len(enemies) = 1
    /\ ~targetLocked
    /\ currentTarget = NoTarget

----------------------------------------------------------------------------
(* Jumping and resetting: frames with the jump key, and resetPosition() *)

\* the key states explored: nothing, jump, jump while walking forward
JumpKeys == { NoKeys, Key(FALSE, FALSE, FALSE, FALSE, TRUE), Key(TRUE, FALSE, FALSE, FALSE, TRUE) }

FrameJump == \E k \in JumpKeys, c \in CameraOffsets : Animate(k, c, NoHit)

NextJump == Advance \/ FrameJump \/ ResetPosition

SpecJump == Init /\ [][NextJump]_vars

----------------------------------------------------------------------------
(* Reset properties *)

\* the indexes of the test positions free of collision
ClearTestPositions == { i \in 1..Len(TestPositions) : ~CheckCollisionIn(collidables, TestPositions[i]) }

\* C12: resetPosition() puts the player on the first of the test positions (0,0.5,0),
\* (5,0.5,5), (-5,0.5,-5), (10,0.5,0), (0,0.5,10) for which checkCollision is false, or
\* on (0,5,0) when all five are blocked; either way the vertical velocity is 0 and
\* checkCollision is false for the player's new position.
ResetFindsClearSpot ==
    [][Calls("resetPosition") =>
         /\ playerPos' = IF ClearTestPositions = {} THEN Vec(0, 5000, 0)
                         ELSE TestPositions[CHOOSE i \in ClearTestPositions :
                                               \A j \in ClearTestPositions : i <= j]
         /\ TestPositions = << Vec(0, 500, 0), Vec(5000, 500, 5000), Vec(-5000, 500, -5000),
                               Vec(10000, 500, 0), Vec(0, 500, 10000) >>
         /\ velocityY' = 0
         /\ ~CheckCollisionIn(collidables, playerPos')]_vars

\* resetPosition() was called in mid-air: the player is on the first test position, at rest
ResetInMidAir ==
    /\ lastCall = Call("resetPosition", "test position")
    /\ keys.jump
    /\ playerPos = Vec(0, 500, 0)
    /\ velocityY = 0
    /\ onGround

----------------------------------------------------------------------------
(* Jump properties *)

\* the change of the vertical velocity that gravity makes in one frame
GravityStep == (Gravity * FrameMs) \div 1000

\* C20: a jump is honoured only on the ground. A frame with the jump key held that
\* starts grounded gives the player the jump impulse 5 (less the gravity of that frame)
\* and leaves it airborne; a frame with the jump key held that starts airborne changes
\* the vertical velocity by gravity only, or lands.
JumpOnlyFromGround ==
    [][(FrameRuns /\ keys'.jump) =>
         IF onGround
         THEN velocityY' = JumpHeight - GravityStep /\ ~onGround'
         ELSE \/ velocityY' = velocityY - GravityStep /\ ~onGround'
              \/ velocityY' = 0 /\ onGround' /\ playerPos'.y = GroundLevel]_vars

----------------------------------------------------------------------------
(* Frame order properties *)

\* an enemy attacks the player in this step
EnemyStrikes == \E e \in EnemyIds : lastAttackTime'[e] # lastAttackTime[e]

\* the step is a setTimeout callback
TimerFires ==
    /\ TimerDue
    /\ now' = now /\ inputCalls' = inputCalls /\ frameDue' = frameDue
    /\ timers' # timers

----------------------------------------------------------------------------
(* The last heart: the player has been struck twice and an enemy is next to it *)

\* the key states explored: nothing, forward with jump
LastHeartKeys == { NoKeys, Key(TRUE, FALSE, FALSE, FALSE, TRUE) }

\* the engine some seconds into the game, time counted from there: the player on the
\* ground with one heart left, the first enemy wounded and in attack range, the last
\* enemy attack more than the cooldown ago
InitLastHeart ==
    /\ collidables = Scenery
    /\ playerPos = StartPosition
    /\ velocityY = 0
    /\ onGround = TRUE
    /\ facing = Vec(0, 0, 1000)
    /\ isAttacking = FALSE
    /\ playerHealth = 1
    /\ enemies = << 1, 2 >>
    /\ enemyPos = (1 :> Vec(StartPosition.x, EnemyMinHeight, StartPosition.z + 1200))
                      @@ (2 :> SpawnPositions[2])
    /\ enemyHealth = (1 :> EnemyStartHealth - 1) @@ (2 :> EnemyStartHealth)
    /\ inScene = [e \in EnemyIds |-> TRUE]
    /\ lastAttackTime = [e \in EnemyIds |-> -AttackCooldown - FrameMs]
    /\ targetLocked = FALSE
    /\ currentTarget = NoTarget
    /\ timers = << >>
    /\ swingFrames = << >>
    /\ now = 0
    /\ frameDue = "none"
    /\ keys = NoKeys
    /\ inputCalls = 0
    /\ lastCall = Call("none", "none")
    /\ lockCleared = FALSE
    /\ lastMove = NoMove
    /\ probe = NoProbe
    /\ moveFrames = 0
    /\ removals = [e \in EnemyIds |-> 0]
    /\ lastHits = << >>
    /\ enemyColor = [e \in EnemyIds |-> "base"]
    /\ lastPlayerPos = StartPosition
    /\ swings = 0
    /\ hitPasses = 0
    /\ material = InitialMaterial
    /\ userData = [m \in Meshes |-> NoUserData]
    /\ occludedAt = [m \in Meshes |-> NeverOccluded]
    /\ clockTime = 0
    /\ landingShake = FALSE
    /\ mouseControls = InitialMouseControls
    /\ mouseEvents = 0
    /\ interactables = {Heart}

FrameLastHeart == \E k \in LastHeartKeys, c \in CameraOffsets : Animate(k, c, NoHit)

NextLastHeart ==
    \/ Advance
    \/ FrameLastHeart
    \/ AnimateSwordSwing
    \/ Attack
    \/ HitDetection
    \/ DeathRemoval
    \/ FlashRevert
    \/ ToggleTargetLock

SpecLastHeart == InitLastHeart /\ [][NextLastHeart]_vars

----------------------------------------------------------------------------
(* Game over properties *)

\* C14: when the player's health reaches 0 nothing is torn down or reset, and from then
\* on the game ignores input: a lock toggle leaves the lock state, a hit check leaves the
\* enemies' health, and a frame with a movement or jump key held leaves the player's
\* position as they were.
GameOverIgnoresInput ==
    /\ [][(playerHealth > 0 /\ playerHealth' = 0) =>
             UNCHANGED << enemies, inScene, enemyHealth, targetLocked, currentTarget, timers >>]_vars
    /\ [][playerHealth = 0 =>
             /\ Calls("toggleTargetLock") => UNCHANGED << targetLocked, currentTarget >>
             /\ HitCheckRuns => enemyHealth' = enemyHealth
             /\ (FrameRuns /\ keys' # NoKeys /\ ~EnemyStrikes) => playerPos' = playerPos]_vars

----------------------------------------------------------------------------
(* Hit condition properties *)

\* (a) the lock is on this enemy and it is closer to the player than 3.0
HitAsLockTarget(e) ==
    targetLocked /\ currentTarget = e /\ DistanceLess(playerPos, enemyPos[e], 3000)

\* (b) the enemy is closer than its effective range, 3.0 for the lock target and 2.0
\* otherwise, and less than 45 degrees off the player's forward vector
HitInFront(e) ==
    LET range == IF targetLocked /\ currentTarget = e THEN 3000 ELSE 2000
        d == Normalize(Sub(enemyPos[e], playerPos))
    IN DistanceLess(playerPos, enemyPos[e], range) /\ InAttackAngle(facing, Vec(d.x, 0, d.z))

\* (c) the enemy is closer than 1.5 to the point 1.5 ahead of the player
HitBySwordTip(e) ==
    LET tip == Vec(playerPos.x + RoundDiv(facing.x * 1500, 1000), playerPos.y,
                   playerPos.z + RoundDiv(facing.z * 1500, 1000))
    IN DistanceLess(enemyPos[e], tip, 1500)

\* C15: when the hit check runs, an enemy of the list is hit exactly when (a), (b) or
\* (c) holds for it; an enemy for which none holds, and an enemy not in the list, is
\* not damaged.
HitExactlyWhenInReach ==
    [][HitCheckRuns =>
         \A e \in EnemyIds :
            /\ InList(lastHits', e)
                  <=> (InList(enemies, e) /\ (HitAsLockTarget(e) \/ HitInFront(e) \/ HitBySwordTip(e)))
            /\ enemyHealth'[e] < enemyHealth[e] => InList(lastHits', e)
            /\ InList(lastHits', e) => enemyHealth'[e] = Max(0, enemyHealth[e] - 1)]_vars

\* a hit check damaged one enemy of the list and spared the other
OneHitOneSpared ==
    /\ hitPasses > 0
    /\ Len(lastHits) = 1
    /\ \E e \in EnemyIds : InList(enemies, e) /\ ~InList(lastHits, e) /\ enemyHealth[e] = EnemyStartHealth
    /\ \E e \in EnemyIds : InList(lastHits, e) /\ enemyHealth[e] < EnemyStartHealth

----------------------------------------------------------------------------
(* The sword swing: clicks between two frames, frames delivered for ever *)

\* how long after a frame the click comes
ClickOffset == 400

\* time passes until the mouse is clicked, between two frames
AdvanceToClick ==
    /\ frameDue = "none"
    /\ ~TimerDue
    /\ now % FrameMs = 0
    /\ timers # << >> => timers[NextTimer].due > now + ClickOffset
    /\ now + ClickOffset <= MaxFrames * FrameMs
    /\ now' = now + ClickOffset
    /\ UNCHANGED << collidables, playerPos, velocityY, onGround, facing, isAttacking,
                    playerHealth, enemies, enemyPos, enemyHealth, inScene,
                    lastAttackTime, targetLocked, currentTarget, timers, swingFrames,
                    frameDue, keys, inputCalls, lastCall, lockCleared, lastMove, probe,
                    moveFrames, removals, lastHits, enemyColor, lastPlayerPos, swings,
                    hitPasses, material, userData, occludedAt, clockTime, landingShake,
                    mouseControls, mouseEvents, interactables >>

\* the frame in which a swing started at time t completes
SwingEnd(t) == ((t + SwingDuration + FrameMs - 1) \div FrameMs) * FrameMs

\* attack() early enough for its swing to complete within the frames explored
AttackInTime == SwingEnd(now) <= MaxFrames * FrameMs /\ Attack

\* both enemies next to the player, the first one wounded
InitSwing ==
    /\ Engine(Scenery, StartPosition, PlayerStartHealth,
              (1 :> Vec(StartPosition.x, EnemyMinHeight, StartPosition.z + 1200))
                 @@ (2 :> Vec(StartPosition.x + 900, EnemyMinHeight, StartPosition.z + 900)),
              (1 :> EnemyStartHealth - 1) @@ (2 :> EnemyStartHealth), NoTarget)
    /\ probe = NoProbe

NextSwing ==
    \/ Advance
    \/ AdvanceToClick
    \/ FrameIdle
    \/ AnimateSwordSwing
    \/ AttackInTime
    \/ HitDetection
    \/ DeathRemoval
    \/ FlashRevert
    \/ ToggleTargetLock
    \/ ResetPosition

SpecSwing == InitSwing /\ [][NextSwing]_vars

\* the frame callback that requestAnimationFrame(animate) registered is run:
\* the pending request for animate is consumed
FrameDelivered == frameDue = "animate" /\ frameDue' \in {"none", "swing"}

\* the browser keeps delivering display frames and runs the timers that are due
SpecSwingFair ==
    /\ SpecSwing
    /\ WF_vars(Advance)
    /\ WF_frameDue(FrameDelivered)
    /\ WF_vars(AnimateSwordSwing)
    /\ WF_vars(HitDetection)
    /\ WF_vars(DeathRemoval)
    /\ WF_vars(FlashRevert)

----------------------------------------------------------------------------
(* Swing timing properties *)

\* the step clears the attacking flag
FlagCleared == isAttacking /\ ~isAttacking'

SwingAlwaysEnds ==
    /\ isAttacking ~> ~isAttacking
    /\ [][FlagCleared =>
             /\ frameDue = "swing" /\ frameDue' = "none"
             /\ swingFrames # << >> /\ now - swingFrames[1] >= 400]_vars
    /\ [][(TimerFires \/ Calls("toggleTargetLock") \/ Calls("resetPosition") \/ FrameRuns)
             => isAttacking' = isAttacking]_vars

\* a swing started between two frames has been through an unfinished frame, its hit
\* check and the frame that completed it
SwingCompleted ==
    /\ swings = 1 /\ hitPasses = 1
    /\ ~isAttacking
    /\ swingFrames = << >>
    /\ now = SwingEnd(ClickOffset)
    /\ lastCall = Call("attack", "swing")

-----------------------------------------------------------------------------
(* Delayed callback properties *)

\* the step is the delayed callback of the given kind, registered for enemy e
CallbackFires(kind, e) ==
    /\ TimerDue
    /\ timers[NextTimer].kind = kind
    /\ timers[NextTimer].enemy = e
    /\ timers' = RemoveAt(timers, NextTimer)
    /\ now' = now /\ inputCalls' = inputCalls /\ frameDue' = frameDue

Gone(e) == ~inScene[e] \/ ~InList(enemies, e)

PendingFlashes(e) == { i \in 1..Len(timers) : timers[i].kind = "flash" /\ timers[i].enemy = e }

\* the enemy lists, in the order Enemy.create makes them, with any enemies removed
EnemyLists == { << >>, << 1 >>, << 2 >>, << 1, 2 >> }

\* C18: a delayed callback that fires for an enemy already detached from the scene or
\* absent from the enemies list changes nothing: the flash revert (200 ms after a hit)
\* leaves the enemies list, the scene membership, the lock state and every colour as
\* they were, and so does the death removal (100 ms after a kill); the splice and the
\* lock clearing of the death removal are the identity for an enemy that is not in the
\* list and is not the lock target.
CallbacksTolerateRemoval ==
    /\ [][\A e \in EnemyIds :
            ((CallbackFires("flash", e) \/ CallbackFires("death", e)) /\ Gone(e))
              => /\ enemies' = enemies
                 /\ inScene' = inScene
                 /\ targetLocked' = targetLocked
                 /\ currentTarget' = currentTarget
                 /\ enemyColor' = enemyColor]_vars
    /\ [](\A list \in EnemyLists : \A e \in EnemyIds : \A target \in EnemyIds \cup {NoTarget} :
            \A locked \in BOOLEAN :
              (~InList(list, e) /\ target # e)
                => /\ Spliced(list, e) = list
                   /\ LockAfterRemoval(locked, target, e)
                        = [locked |-> locked, target |-> target])

\* the flash revert of a defeated enemy has fired after the enemy was removed: the
\* enemy is gone, no revert is pending for it, and it kept the red of the hit
FlashFiredAfterRemoval ==
    \E e \in EnemyIds :
        /\ Gone(e)
        /\ removals[e] = 1
        /\ PendingFlashes(e) = {}
        /\ enemyColor[e] = "red"

-----------------------------------------------------------------------------
(* Holding a lock *)

\* enemy 1 within the lock range of the start and beyond it from the first reset
\* position, out of the range in which enemies chase; or both enemies in a row ahead
\* of the player, the nearer at full health and the farther at its last point
LockStarts ==
    { [epos |-> (1 :> Vec(StartPosition.x + 9000, EnemyMinHeight, StartPosition.z + 9000))
                   @@ (2 :> SpawnPositions[2]),
       ehealth |-> FullHealth],
      [epos |-> (1 :> Vec(StartPosition.x, EnemyMinHeight, StartPosition.z + 1000))
                   @@ (2 :> Vec(StartPosition.x, EnemyMinHeight, StartPosition.z + 1400)),
       ehealth |-> (1 :> EnemyStartHealth) @@ (2 :> EnemyStartHealth - 1)] }

InitLock ==
    /\ \E start \in LockStarts :
           Engine(Scenery, StartPosition, PlayerStartHealth, start.epos, start.ehealth, NoTarget)
    /\ probe = NoProbe

SpecLock == InitLock /\ [][Next]_vars

-----------------------------------------------------------------------------
(* Lock persistence properties *)

TargetOutOfRange ==
    /\ targetLocked
    /\ currentTarget # NoTarget
    /\ ~DistanceLess(playerPos, enemyPos[currentTarget], LockRange)

\* C19: the lock state is changed only by toggleTargetLock() and by the death-removal
\* callback of the locked enemy. A frame (locomotion, camera, enemies, takeDamage),
\* attack(), resetPosition(), the hit check, the flash revert and the removal of
\* another enemy leave targetLocked and currentTarget as they were, also while the
\* target is farther away than the 15 units within which a lock is acquired; a frame
\* never acquires a target.
LockChangedOnlyByToggleOrDeath ==
    /\ [][(targetLocked' # targetLocked \/ currentTarget' # currentTarget)
            => (Calls("toggleTargetLock") \/ RemovesLockTarget)]_vars
    /\ [][(FrameRuns /\ TargetOutOfRange)
            => (targetLocked' /\ currentTarget' = currentTarget)]_vars
    /\ [][(FrameRuns /\ ~targetLocked) => (~targetLocked' /\ currentTarget' = NoTarget)]_vars

\* a lock is held on a target beyond the lock range, and the player has moved in a
\* frame since resetPosition() took it there
LockHeldOutOfRange ==
    /\ TargetOutOfRange
    /\ lastCall.handler = "resetPosition"
    /\ playerPos # TestPositions[1]
    /\ moveFrames = 1

-----------------------------------------------------------------------------
(* Gravity properties *)

\* the number of enemies that strike the player in this step: each strike is a
\* takeDamage, which lifts the player by one unit
Strikes == Cardinality({ e \in EnemyIds : lastAttackTime'[e] # lastAttackTime[e] })

\* the height at which the gravity of this frame finds the player: locomotion has run
HeightAfterLocomotion == IF Directed(keys') THEN lastMove'.to.y ELSE playerPos.y

\* C21: in a frame in which the player is airborne (it started airborne, or it jumps in
\* this frame), the vertical velocity is reduced by 9.8 * deltaTime and the height
\* integrated with the new velocity; when the integrated height is at or below 1.0 the
\* height is clamped to 1.0, the velocity set to 0 and the player grounded in the same
\* frame (a takeDamage of the same frame then lifts the player by 1 per strike);
\* otherwise the player stays airborne at the integrated height. An airborne player is
\* always strictly above 1.0.
GravityIntegratesAndClamps ==
    /\ [][(FrameRuns /\ (~onGround \/ keys'.jump)) =>
            LET vy1 == (IF onGround THEN JumpHeight ELSE velocityY) - GravityStep
                y1 == HeightAfterLocomotion + (vy1 * FrameMs) \div 1000
            IN IF y1 <= GroundLevel
               THEN /\ onGround'
                    /\ velocityY' = 0
                    /\ playerPos'.y = GroundLevel + 1000 * Strikes
               ELSE /\ ~onGround'
                    /\ velocityY' = vy1
                    /\ playerPos'.y = y1 + 1000 * Strikes]_vars
    /\ [](~onGround => playerPos.y > GroundLevel)

\* the player has walked and jumped, and stands on the ground again at height 1.0
LandedAfterJump ==
    /\ onGround
    /\ playerPos.y = GroundLevel
    /\ velocityY = 0
    /\ playerPos.z # StartPosition.z
    /\ lastCall.handler # "resetPosition"
    /\ keys = NoKeys

-----------------------------------------------------------------------------
(* Occlusion: frames in which a mesh stands between the player and the camera *)

\* what the ray from the player to the camera meets first in a frame
Occluders == Meshes \cup {NoHit}

FrameOccluded == \E c \in CameraOffsets, hit \in Occluders : Animate(NoKeys, c, hit)

NextOcclusion == Advance \/ FrameOccluded \/ FadeRevert

SpecOcclusion == Init /\ [][NextOcclusion]_vars

-----------------------------------------------------------------------------
(* Occlusion properties *)

PendingFades(m) == { i \in 1..Len(timers) : timers[i].kind = "fade" /\ timers[i].mesh = m }

\* the mesh was faded, hides the player no longer, and every revert set for it has run
FadeOver(m) ==
    /\ occludedAt[m] # NeverOccluded
    /\ now >= occludedAt[m] + FadeDelay
    /\ PendingFades(m) = {}

\* C22: the fade of an occluding mesh is temporary. Once a mesh that was faded hides
\* the player no longer and the 1000 ms after its last fade have elapsed, its opacity
\* and its transparent flag are those it had before the first fade, also when it hid
\* the player in several consecutive frames.
FadeIsTemporary == \A m \in Meshes : FadeOver(m) => material[m] = InitialMaterial[m]

-----------------------------------------------------------------------------
(* Falling: jumps, and display refreshes at which the browser delivers no frame *)

\* no frame is delivered at this display refresh (the page is hidden, or the browser
\* drops the frame): time passes to the next one, and the frame that is delivered
\* then reads the whole interval from clock.getDelta()
FrameSkipped ==
    /\ frameDue = "animate"
    /\ \A i \in 1..Len(timers) : timers[i].due >= now + FrameMs
    /\ now + FrameMs <= MaxFrames * FrameMs
    /\ now' = now + FrameMs
    /\ UNCHANGED << collidables, playerPos, velocityY, onGround, facing, isAttacking,
                    playerHealth, enemies, enemyPos, enemyHealth, inScene,
                    lastAttackTime, targetLocked, currentTarget, timers, swingFrames,
                    frameDue, keys, inputCalls, lastCall, lockCleared, lastMove, probe,
                    moveFrames, removals, lastHits, enemyColor, lastPlayerPos, swings,
                    hitPasses, material, userData, occludedAt, clockTime, landingShake,
                    mouseControls, mouseEvents, interactables >>

NextFall == Advance \/ FrameJump \/ FrameSkipped

SpecFall == Init /\ [][NextFall]_vars

-----------------------------------------------------------------------------
(* Landing shake properties *)

\* the vertical velocity at which this frame's gravity step moves the player
ImpactVelocity == velocityY - (Gravity * (now - clockTime)) \div 1000

\* C23: a frame in which the player goes from airborne to grounded with a vertical
\* velocity at impact below -5 starts the landing shake in its camera update.
HardLandingShakes ==
    [][(FrameRuns /\ ~onGround /\ onGround' /\ ImpactVelocity < -ShakeSpeed)
         => landingShake']_vars

-----------------------------------------------------------------------------
(* Mouse controls of the camera: Core.setupControls *)

\* clientX and clientY of the mouse events explored, in pixels
MousePlaces == {0, 100, 1000}

\* deltaY of the wheel events explored
WheelDeltas == {-600, -100, 100, 600}

\* mousedown with the right button at (x, y)
MouseDownRight ==
    /\ mouseEvents < MaxMouse
    /\ mouseEvents' = mouseEvents + 1
    /\ \E x \in MousePlaces, y \in MousePlaces :
          mouseControls' = [mouseControls EXCEPT !.isActive = TRUE, !.lastX = x, !.lastY = y]
    /\ UNCHANGED << collidables, playerPos, velocityY, onGround, facing, isAttacking,
                    playerHealth, enemies, enemyPos, enemyHealth, inScene,
                    lastAttackTime, targetLocked, currentTarget, timers, swingFrames,
                    now, frameDue, keys, inputCalls, lastCall, lockCleared, lastMove,
                    probe, moveFrames, removals, lastHits, enemyColor, lastPlayerPos,
                    swings, hitPasses, material, userData, occludedAt, clockTime,
                    landingShake, interactables >>

\* mouseup of the right button
MouseUpRight ==
    /\ mouseEvents < MaxMouse
    /\ mouseEvents' = mouseEvents + 1
    /\ mouseControls' = [mouseControls EXCEPT !.isActive = FALSE]
    /\ UNCHANGED << collidables, playerPos, velocityY, onGround, facing, isAttacking,
                    playerHealth, enemies, enemyPos, enemyHealth, inScene,
                    lastAttackTime, targetLocked, currentTarget, timers, swingFrames,
                    now, frameDue, keys, inputCalls, lastCall, lockCleared, lastMove,
                    probe, moveFrames, removals, lastHits, enemyColor, lastPlayerPos,
                    swings, hitPasses, material, userData, occludedAt, clockTime,
                    landingShake, interactables >>

\* cameraRotation after a drag by (deltaX, deltaY): the pitch is clamped, the yaw is not
Rotated(rotation, deltaX, deltaY) ==
    [x |-> Max(MinPolarAngle, Min(MaxPolarAngle, rotation.x - deltaY * Sensitivity)),
     y |-> rotation.y - deltaX * Sensitivity]

\* mousemove to (x, y)
MouseMove ==
    /\ mouseEvents < MaxMouse
    /\ mouseEvents' = mouseEvents + 1
    /\ \E x \in MousePlaces, y \in MousePlaces :
          mouseControls' =
              IF mouseControls.isActive /\ ~targetLocked
              THEN [mouseControls EXCEPT
                       !.lastX = x, !.lastY = y,
                       !.cameraRotation = Rotated(@, x - mouseControls.lastX,
                                                  y - mouseControls.lastY)]
              ELSE mouseControls
    /\ UNCHANGED << collidables, playerPos, velocityY, onGround, facing, isAttacking,
                    playerHealth, enemies, enemyPos, enemyHealth, inScene,
                    lastAttackTime, targetLocked, currentTarget, timers, swingFrames,
                    now, frameDue, keys, inputCalls, lastCall, lockCleared, lastMove,
                    probe, moveFrames, removals, lastHits, enemyColor, lastPlayerPos,
                    swings, hitPasses, material, userData, occludedAt, clockTime,
                    landingShake, interactables >>

\* orbitDistance after a wheel event
Zoomed(distance, deltaY) ==
    Max(MinOrbitDistance, Min(MaxOrbitDistance, distance + deltaY * WheelScale))

\* wheel
Wheel ==
    /\ mouseEvents < MaxMouse
    /\ mouseEvents' = mouseEvents + 1
    /\ \E deltaY \in WheelDeltas :
          mouseControls' =
              IF ~targetLocked
              THEN [mouseControls EXCEPT !.orbitDistance = Zoomed(@, deltaY)]
              ELSE mouseControls
    /\ UNCHANGED << collidables, playerPos, velocityY, onGround, facing, isAttacking,
                    playerHealth, enemies, enemyPos, enemyHealth, inScene,
                    lastAttackTime, targetLocked, currentTarget, timers, swingFrames,
                    now, frameDue, keys, inputCalls, lastCall, lockCleared, lastMove,
                    probe, moveFrames, removals, lastHits, enemyColor, lastPlayerPos,
                    swings, hitPasses, material, userData, occludedAt, clockTime,
                    landingShake, interactables >>

NextMouse == MouseDownRight \/ MouseUpRight \/ MouseMove \/ Wheel \/ ToggleTargetLock

SpecMouse == Init /\ [][NextMouse]_vars

-----------------------------------------------------------------------------
(* Camera range properties *)

OrbitInRange ==
    /\ mouseControls.orbitDistance >= MinOrbitDistance
    /\ mouseControls.orbitDistance <= MaxOrbitDistance

PitchInRange ==
    /\ mouseControls.cameraRotation.x >= MinPolarAngle
    /\ mouseControls.cameraRotation.x <= MaxPolarAngle

\* C24: in every state, from construction on and after any mouse drags and wheel
\* events, the orbit distance is within [2, 10] and the camera pitch is within
\* [minPolarAngle, maxPolarAngle] = [0.1, PI / 1.8].
CameraInRange == OrbitInRange /\ PitchInRange

-----------------------------------------------------------------------------
(* The collectible heart: Environment.createCollectible, UI.checkInteraction *)

\* where Environment.setup creates the heart
HeartPosition == Vec(5000, 500, -5000)

Box(lo, hi) == [min |-> lo, max |-> hi]

\* Box3.intersectsBox
IntersectsBox(a, b) ==
    ~ (\/ b.max.x < a.min.x \/ b.min.x > a.max.x
       \/ b.max.y < a.min.y \/ b.min.y > a.max.y
       \/ b.max.z < a.min.z \/ b.min.z > a.max.z)

\* interactBox of the heart: the box of its sphere, expanded by 1
HeartBox ==
    LET reach == HeartRadius + InteractMargin
    IN Box(Plus(HeartPosition, Vec(-reach, -reach, -reach)),
           Plus(HeartPosition, Vec(reach, reach, reach)))

\* playerBox of checkInteraction for a player at pos: the column from the boot soles to
\* the top of the head, as wide as the torso is deep. The arms, sword and shield only
\* widen the box, by an amount that turns with the player.
PlayerBox(pos) ==
    Box(Plus(pos, Vec(-TorsoHalfDepth, BootSole, -TorsoHalfDepth)),
        Plus(pos, Vec(TorsoHalfDepth, HeadTop, TorsoHalfDepth)))

\* the heart's action without the test against maxHealth
HeartAction_uncapped(health, list) == [health |-> health + 1, list |-> list \ {Heart}]

\* the action of the heart: below maxHealth it adds one heart and leaves the list
HeartAction(health, list) ==
    IF health < MaxHealth
    THEN [health |-> health + 1, list |-> list \ {Heart}]
    ELSE [health |-> health, list |-> list]

\* keydown of 'e': keys.interact is set and UI.checkInteraction runs the action of each
\* interactable whose box the player's box intersects
CheckInteraction ==
    /\ BetweenHandlers
    /\ inputCalls < MaxInputs
    /\ inputCalls' = inputCalls + 1
    /\ IF Heart \in interactables /\ IntersectsBox(PlayerBox(playerPos), HeartBox)
       THEN \E a \in {HeartAction(playerHealth, interactables)} :
               /\ playerHealth' = a.health
               /\ interactables' = a.list
               /\ lastCall' = Call("checkInteraction",
                                   IF a.health # playerHealth THEN "collected" ELSE "full")
       ELSE /\ lastCall' = Call("checkInteraction", "none")
            /\ UNCHANGED << playerHealth, interactables >>
    /\ UNCHANGED << collidables, playerPos, velocityY, onGround, facing, isAttacking,
                    enemies, enemyPos, enemyHealth, inScene, lastAttackTime,
                    targetLocked, currentTarget, timers, swingFrames, now, frameDue,
                    keys, lockCleared, lastMove, probe, moveFrames, removals, lastHits,
                    enemyColor, lastPlayerPos, swings, hitPasses, material, userData,
                    occludedAt, clockTime, landingShake, mouseControls, mouseEvents >>

\* the engine some seconds into the game, time counted from there: the player stands at
\* the heart with one heart left or with all three, the first enemy wounded and in
\* attack range, the last enemy attack more than the cooldown ago
InitHeart ==
    /\ collidables = Scenery
    /\ playerPos = Vec(HeartPosition.x, GroundLevel, HeartPosition.z)
    /\ velocityY = 0
    /\ onGround = TRUE
    /\ facing = Vec(0, 0, 1000)
    /\ isAttacking = FALSE
    /\ playerHealth \in {1, PlayerStartHealth}
    /\ enemies = << 1, 2 >>
    /\ enemyPos = (1 :> Vec(HeartPosition.x, EnemyMinHeight, HeartPosition.z + 1200))
                      @@ (2 :> SpawnPositions[2])
    /\ enemyHealth = (1 :> EnemyStartHealth - 1) @@ (2 :> EnemyStartHealth)
    /\ inScene = [e \in EnemyIds |-> TRUE]
    /\ lastAttackTime = [e \in EnemyIds |-> -AttackCooldown - FrameMs]
    /\ targetLocked = FALSE
    /\ currentTarget = NoTarget
    /\ timers = << >>
    /\ swingFrames = << >>
    /\ now = 0
    /\ frameDue = "none"
    /\ keys = NoKeys
    /\ inputCalls = 0
    /\ lastCall = Call("none", "none")
    /\ lockCleared = FALSE
    /\ lastMove = NoMove
    /\ probe = NoProbe
    /\ moveFrames = 0
    /\ removals = [e \in EnemyIds |-> 0]
    /\ lastHits = << >>
    /\ enemyColor = [e \in EnemyIds |-> "base"]
    /\ lastPlayerPos = Vec(HeartPosition.x, GroundLevel, HeartPosition.z)
    /\ swings = 0
    /\ hitPasses = 0
    /\ material = InitialMaterial
    /\ userData = [m \in Meshes |-> NoUserData]
    /\ occludedAt = [m \in Meshes |-> NeverOccluded]
    /\ clockTime = 0
    /\ landingShake = FALSE
    /\ mouseControls = InitialMouseControls
    /\ mouseEvents = 0
    /\ interactables = {Heart}

NextHeart ==
    \/ Advance
    \/ FrameIdle
    \/ AnimateSwordSwing
    \/ Attack
    \/ HitDetection
    \/ DeathRemoval
    \/ FlashRevert
    \/ CheckInteraction

SpecHeart == InitHeart /\ [][NextHeart]_vars

\* C25: in every reachable state each enemy's health is an integer in 0..2 and the
\* player's health is an integer in 0..maxHealth: damage never takes either below 0 and
\* a heart pickup never raises the player's health above maxHealth
HealthInRange ==
    /\ \A e \in EnemyIds : enemyHealth[e] \in 0 .. EnemyStartHealth
    /\ playerHealth \in 0 .. MaxHealth

\* the heart has been collected at one heart left, and an enemy has struck the player
\* since
HeartCollectedThenStruck ==
    /\ Heart \notin interactables
    /\ lastCall = Call("checkInteraction", "collected")
    /\ playerHealth = 1

-----------------------------------------------------------------------------
(* The dying enemy: an enemy at health 0 between the hit and its removal *)

\* how long after a frame the click comes whose hit lands just before the next frame
EarlyClickOffset == 250

\* how far from the player the first enemy stands: the player has walked up to it
CloseQuarters == 300

\* time passes until the mouse is clicked, between two frames
AdvanceToEarlyClick ==
    /\ frameDue = "none"
    /\ ~TimerDue
    /\ now % FrameMs = 0
    /\ timers # << >> => timers[NextTimer].due > now + EarlyClickOffset
    /\ now + EarlyClickOffset <= MaxFrames * FrameMs
    /\ now' = now + EarlyClickOffset
    /\ UNCHANGED << collidables, playerPos, velocityY, onGround, facing, isAttacking,
                    playerHealth, enemies, enemyPos, enemyHealth, inScene,
                    lastAttackTime, targetLocked, currentTarget, timers, swingFrames,
                    frameDue, keys, inputCalls, lastCall, lockCleared, lastMove, probe,
                    moveFrames, removals, lastHits, enemyColor, lastPlayerPos, swings,
                    hitPasses, material, userData, occludedAt, clockTime, landingShake,
                    mouseControls, mouseEvents, interactables >>

\* the engine some seconds into the game, time counted from there: the player has
\* walked up to the first enemy, which is wounded; the last enemy attack was more than
\* the cooldown ago
InitDying ==
    /\ collidables = Scenery
    /\ playerPos = StartPosition
    /\ velocityY = 0
    /\ onGround = TRUE
    /\ facing = Vec(0, 0, 1000)
    /\ isAttacking = FALSE
    /\ playerHealth = PlayerStartHealth
    /\ enemies = << 1, 2 >>
    /\ enemyPos = (1 :> Vec(StartPosition.x, EnemyMinHeight, StartPosition.z + CloseQuarters))
                      @@ (2 :> SpawnPositions[2])
    /\ enemyHealth = (1 :> EnemyStartHealth - 1) @@ (2 :> EnemyStartHealth)
    /\ inScene = [e \in EnemyIds |-> TRUE]
    /\ lastAttackTime = [e \in EnemyIds |-> -AttackCooldown - FrameMs]
    /\ targetLocked = FALSE
    /\ currentTarget = NoTarget
    /\ timers = << >>
    /\ swingFrames = << >>
    /\ now = 0
    /\ frameDue = "none"
    /\ keys = NoKeys
    /\ inputCalls = 0
    /\ lastCall = Call("none", "none")
    /\ lockCleared = FALSE
    /\ lastMove = NoMove
    /\ probe = NoProbe
    /\ moveFrames = 0
    /\ removals = [e \in EnemyIds |-> 0]
    /\ lastHits = << >>
    /\ enemyColor = [e \in EnemyIds |-> "base"]
    /\ lastPlayerPos = StartPosition
    /\ swings = 0
    /\ hitPasses = 0
    /\ material = InitialMaterial
    /\ userData = [m \in Meshes |-> NoUserData]
    /\ occludedAt = [m \in Meshes |-> NeverOccluded]
    /\ clockTime = 0
    /\ landingShake = FALSE
    /\ mouseControls = InitialMouseControls
    /\ mouseEvents = 0
    /\ interactables = {Heart}

NextDying ==
    \/ Advance
    \/ AdvanceToEarlyClick
    \/ FrameIdle
    \/ AnimateSwordSwing
    \/ Attack
    \/ HitDetection
    \/ DeathRemoval
    \/ FlashRevert
    \/ ToggleTargetLock

SpecDying == InitDying /\ [][NextDying]_vars

\* C26: an enemy whose health is 0 never inflicts damage on the player: between the
\* hit that reduced it to 0 and its removal from the list, no frame's enemy update
\* strikes the player on behalf of that enemy
DeadEnemyNeverStrikes ==
    [][\A e \in EnemyIds : enemyHealth[e] = 0 => lastAttackTime'[e] = lastAttackTime[e]]_vars

-----------------------------------------------------------------------------
(* Grounded-state properties *)

\* C27: in every reachable state, after any sequence of frames, enemy attacks and
\* resetPosition calls, whenever the grounded flag is true the player's vertical
\* position equals the ground reference height 1.0
GroundedAtGroundLevel == onGround => playerPos.y = GroundLevel

\* C28: in every reachable state, whenever the grounded flag is true the player's
\* vertical velocity is 0: the velocity is non-zero only between a jump and the
\* following landing or reset
GroundedAtRest == onGround => velocityY = 0

\* the player has landed in a frame that found the jump key held, with no reset so far
LandedWithJumpHeld ==
    /\ onGround
    /\ velocityY = 0
    /\ keys.jump
    /\ lastCall = Call("none", "none")

-----------------------------------------------------------------------------
(* Step-up properties *)

\* heights of the candidate positions tried besides the player's own: the ground
\* height, the height one enemy attack lifts a grounded player to, and the highest
\* one the claim covers
CandidateHeights == { GroundLevel, GroundLevel + 1000, CollisionCeiling - StepHeight }

\* C29: the step-up fallback never succeeds for a player at ground height. In a frame
\* with a direction held, for every height y <= 2.9 tried, if checkCollision blocks
\* the full candidate at y then it also blocks it at y + 0.1; and a grounded player at
\* y = 1.0 whose full, X-slide and Z-slide candidates are all blocked does not move.
StepUpNeverLifts ==
    [][(FrameRuns /\ Directed(keys') /\ lastMove'.moved /\ lastMove'.from = playerPos) =>
         LET c == Candidates(lastMove'.from, lastMove'.target)
         IN /\ \A y \in CandidateHeights \cup {playerPos.y} :
                  (y <= CollisionCeiling - StepHeight
                      /\ CheckCollisionIn(collidables, Vec(c[1].x, y, c[1].z)))
                     => CheckCollisionIn(collidables, Vec(c[1].x, y + StepHeight, c[1].z))
            /\ (onGround /\ playerPos.y = GroundLevel
                   /\ \A i \in 1..3 : CheckCollisionIn(collidables, c[i]))
                  => (lastMove'.to = playerPos /\ playerPos' = playerPos)]_vars

\* a grounded player at ground height has pushed into the rocks: the full movement,
\* both slides and the raised candidate were blocked, and it stands where it stood
HemmedInByRocks ==
    /\ lastMove.moved
    /\ lastMove.from.y = GroundLevel
    /\ lastMove.target # lastMove.from
    /\ \A i \in 1..4 :
          CheckCollisionIn(collidables, Candidates(lastMove.from, lastMove.target)[i])
    /\ lastMove.to = lastMove.from
    /\ playerPos = lastMove.from
    /\ onGround

-----------------------------------------------------------------------------
(* Flights: jumps with frames delivered for ever, some of them late, and no reset *)

\* a frame of the flights explored: the jump key starts a flight only while a later
\* frame is left to be explored
FrameFlight ==
    \E k \in JumpKeys, c \in CameraOffsets :
       /\ (k.jump /\ onGround) => now < MaxFrames * FrameMs
       /\ Animate(k, c, NoHit)

NextFlight == Advance \/ FrameFlight \/ FrameSkipped

SpecFlight == Init /\ [][NextFlight]_vars

\* the browser keeps delivering display frames
SpecFlightFair ==
    /\ SpecFlight
    /\ WF_vars(Advance)
    /\ WF_frameDue(FrameDelivered)

\* C30: once the player is airborne it eventually becomes grounded again: with frames
\* that keep occurring and no resetPosition call, every flight is followed after
\* finitely many frames by a frame that sets the grounded flag
AirborneLands == (~onGround) ~> onGround

\* the player has landed in the last frame explored, off a jump in the frame before
LandedInLastFrame ==
    /\ onGround
    /\ playerPos.y = GroundLevel
    /\ keys.jump
    /\ now = MaxFrames * FrameMs
    /\ frameDue = "none"

====
